---- MODULE Spec2Model ----
(***************************************************************************)
(* Model of the PTY session registry (services/PTYManager.ts), of the     *)
(* output ring buffer (services/RingBuffer.ts), of the permission service  *)
(* (services/PermissionService.ts), of the escape-sequence codec           *)
(* (utils/escapeSequences.ts) and of the tool handlers (tools/spawn.ts).   *)
(*                                                                         *)
(* Text is a sequence of one-character strings; NL is the newline.  The    *)
(* server runs on one event loop: a handler of the registry and a callback *)
(* of node-pty each run to completion, so each is one action.  The         *)
(* processes themselves run outside the loop: a process dies on its own    *)
(* (ProcExit) or through kill(), and its exit callback is delivered later. *)
(* SpecCalls breaks spawn and kill at their effects instead.               *)
(***************************************************************************)
EXTENDS Integers, Sequences, FiniteSets, TLC

\* ------------------------------------------------------------------ bounds
\* Sessions spawned in one run (the process handles allocated).
MaxProcs == 2
\* Capacity of a ring buffer (PTY_MAX_BUFFER_LINES; 50000 unless configured).
maxLines == 2
\* Chunks appended in one run of the ring buffer alone.
MaxAppends == 3
\* Arguments of a command given to the permission service.
MaxArgs == 2

\* ------------------------------------------------------------------ inputs
NL == "\n"
\* The id space of generateId (four random bytes in the code).
Ids == {"pty_00", "pty_01"}
Commands == {"sh"}
ExitCodes == {0, 1}
\* The text of the error pty.spawn throws (String(error)).
Failures == {"ENOENT"}
\* Chunks a process delivers to its data callback.
Chunks == {<<"a", NL, "b">>}
\* Data a caller writes to a session.
Datas == {<<"a", NL>>}
\* Search patterns: a pattern matches the lines that contain its character.
Patterns == {"a"}
Offsets == {0, 1}
\* An optional value is <<>> (undefined) or <<v>>.  The tool handlers always
\* pass the registry a limit.
Limits == {<<1>>}
\* Chunks appended to the ring buffer alone.
BufChunks == {<<>>, <<"a">>, <<NL>>, <<"a", NL>>, <<"a", NL, "b">>, <<NL, NL>>}
\* Offsets, limits and patterns given to the ring buffer alone: offsets from
\* below zero to beyond the capacity, a limit omitted or from below zero up.
BufOffsets == (0 - 1)..(maxLines + 1)
BufLimits == {<<>>} \cup {<<n>> : n \in (0 - 1)..(maxLines + 1)}
BufPatterns == {"a", "b"}

None == <<>>
Some(v) == <<v>>

VARIABLES
  sessions,   \* the registry: id -> reference of the session object
  objs,       \* the session objects ever created, by reference
  procs,      \* the processes behind the handles, by reference
  shut,       \* the layer's finalizer has run
  res,        \* the last operation or callback and what it returned
  rbLines,    \* a ring buffer alone: its lines
  rbPending,  \* ... the fragments its running append has still to push
  rbCount,    \* ... the chunks appended so far
  rbHist,     \* ... the fragments pushed since the last clear
  rbChunks,   \* ... the chunks appended since the last clear
  rbOut,      \* ... its last operation, its arguments and what it returned
  config,     \* the permission configuration the service loaded
  perm,       \* the last check of the permission service and its result
  calls       \* the calls of spawn and kill that have begun and not ended

vars == <<sessions, objs, procs, shut, res, rbLines, rbPending, rbCount, rbHist,
          rbChunks, rbOut, config, perm, calls>>
regVars == <<sessions, objs, procs, shut, res>>
rbVars == <<rbLines, rbPending, rbCount, rbHist, rbChunks, rbOut>>
permVars == <<config, perm>>

\* -------------------------------------------------------------- RingBuffer
\* The fragments between the newlines of a text, n+1 of them for n newlines.
RECURSIVE SplitFrom(_)
SplitFrom(data) ==
  IF \A i \in 1..Len(data) : data[i] # NL
  THEN <<data>>
  ELSE LET k == CHOOSE i \in 1..Len(data) :
                  data[i] = NL /\ \A j \in 1..(i - 1) : data[j] # NL
       IN  <<SubSeq(data, 1, k - 1)>> \o SplitFrom(SubSeq(data, k + 1, Len(data)))

\* Mutant: the empty fragment after a trailing newline is dropped.
SplitDropTrailingEmpty(data) ==
  LET frags == SplitFrom(data)
  IN  IF Len(frags) > 1 /\ frags[Len(frags)] = <<>>
      THEN SubSeq(frags, 1, Len(frags) - 1)
      ELSE frags

\* data.split("\n")
Split(data) == SplitFrom(data)

\* Mutant: a push that never evicts.
PushLineNoEvict(lines, line) == Append(lines, line)

\* Mutant: over capacity, the newest line is removed (pop for shift).
PushLineEvictNewest(lines, line) ==
  LET pushed == Append(lines, line)
  IN  IF Len(pushed) > maxLines THEN SubSeq(pushed, 1, Len(pushed) - 1)
      ELSE pushed

\* Mutant: the oldest line is evicted as soon as the buffer is full (>= for >).
PushLineEvictEarly(lines, line) ==
  LET pushed == Append(lines, line)
  IN  IF Len(pushed) >= maxLines THEN Tail(pushed) ELSE pushed

\* One iteration of append's loop: push, then shift when over capacity.
PushLine(lines, line) ==
  LET pushed == Append(lines, line)
  IN  IF Len(pushed) > maxLines THEN Tail(pushed) ELSE pushed

\* append's loop over the fragments.
RECURSIVE PushAll(_, _)
PushAll(lines, frags) ==
  IF frags = <<>> THEN lines
  ELSE PushAll(PushLine(lines, Head(frags)), Tail(frags))

\* RingBuffer.append(data)
BufAppend(lines, data) == PushAll(lines, Split(data))

Max(a, b) == IF a > b THEN a ELSE b
Min(a, b) == IF a < b THEN a ELSE b

\* Array.prototype.slice(start, end) for integers start and end.
Slice(arr, start, end) ==
  LET n  == Len(arr)
      s0 == IF start < 0 THEN Max(n + start, 0) ELSE Min(start, n)
      e0 == IF end < 0 THEN Max(n + end, 0) ELSE Min(end, n)
  IN  IF s0 >= e0 THEN <<>> ELSE SubSeq(arr, s0 + 1, e0)

\* Mutant: read without the clamp of its offset (Math.max(0, offset)).
BufReadNoClamp(lines, offset, limit) ==
  Slice(lines, offset, IF limit # None THEN offset + limit[1] ELSE Len(lines))

\* RingBuffer.read(offset, limit)
BufRead(lines, offset, limit) ==
  LET start == Max(0, offset)
      end   == IF limit # None THEN start + limit[1] ELSE Len(lines)
  IN  Slice(lines, start, end)

\* pattern.test(line) for a pattern that is one literal character.
Test(pattern, line) == \E i \in 1..Len(line) : line[i] = pattern

\* RingBuffer.search(pattern): the loop over i = 0 .. length-1.
RECURSIVE SearchFrom(_, _, _)
SearchFrom(lines, pattern, i) ==
  IF i > Len(lines) THEN <<>>
  ELSE (IF Test(pattern, lines[i])
        THEN <<[lineNumber |-> i, text |-> lines[i]]>> ELSE <<>>)
       \o SearchFrom(lines, pattern, i + 1)

\* Mutant: search reports the 0-based index (i for i + 1).
BufSearchZeroBased(lines, pattern) ==
  LET found == SearchFrom(lines, pattern, 1)
  IN  [k \in 1..Len(found) |-> [found[k] EXCEPT !.lineNumber = @ - 1]]

\* Mutant: search reports the line after the one that matched (i + 2).
BufSearchOneTooFar(lines, pattern) ==
  LET found == SearchFrom(lines, pattern, 1)
  IN  [k \in 1..Len(found) |-> [found[k] EXCEPT !.lineNumber = @ + 1]]

BufSearch(lines, pattern) == SearchFrom(lines, pattern, 1)

\* RingBuffer.clear()
BufClear == <<>>

\* ------------------------------------------------------ PermissionService
\* JSON values of the configuration: a string, an object (its entries in
\* the order of the document, each a key and a value) or undefined.  A key
\* is the sequence of the words of its string ("git push": <<"git", "push">>).
Undefined == [t |-> "undef", v |-> <<>>]
JStr(s) == [t |-> "str", v |-> s]
JObj(entries) == [t |-> "obj", v |-> entries]
IsStr(x, s) == x.t = "str" /\ x.v = s

\* obj[key]: the value of the entry with the key, undefined without one.
Lookup(obj, key) ==
  IF obj.t # "obj" \/ \A i \in 1..Len(obj.v) : obj.v[i][1] # key
  THEN Undefined
  ELSE obj.v[CHOOSE i \in 1..Len(obj.v) :
               obj.v[i][1] = key /\ \A j \in (i + 1)..Len(obj.v) : obj.v[j][1] # key][2]

\* PTY_PERMISSIONS: not set, or set to a text that JSON.parse rejects
\* (parsed undefined) or turns into a value.
EnvUnset == [set |-> FALSE, parsed |-> Undefined]
EnvInvalid == [set |-> TRUE, parsed |-> Undefined]
EnvDoc(doc) == [set |-> TRUE, parsed |-> doc]

DefaultConfig == JObj(<< <<(<<"bash">>), JStr("allow")>> >>)

\* loadPermissionConfig
loadPermissionConfig(env) ==
  IF ~env.set THEN DefaultConfig
  ELSE IF env.parsed.t = "undef" THEN DefaultConfig
  ELSE env.parsed

\* Wildcard matching of the words of a command line against the words of a
\* pattern: "*" matches any run of words, any other word matches itself.
RECURSIVE GlobMatch(_, _)
GlobMatch(items, pats) ==
  IF pats = <<>> THEN items = <<>>
  ELSE IF Head(pats) = "*"
  THEN \E k \in 0..Len(items) :
         GlobMatch(SubSeq(items, k + 1, Len(items)), Tail(pats))
  ELSE /\ items # <<>>
       /\ Head(items) = Head(pats)
       /\ GlobMatch(Tail(items), Tail(pats))

\* A pattern matches the pair (head: the command, tail: its arguments).
Matches(input, pattern) == GlobMatch(<<input.head>> \o input.tail, pattern)

\* Wildcard.allStructured(input, patterns): the value of the first entry
\* whose pattern matches, undefined when none does.
allStructured(input, patterns) ==
  IF \A i \in 1..Len(patterns.v) : ~Matches(input, patterns.v[i][1])
  THEN Undefined
  ELSE patterns.v[CHOOSE i \in 1..Len(patterns.v) :
                    /\ Matches(input, patterns.v[i][1])
                    /\ \A j \in 1..(i - 1) : ~Matches(input, patterns.v[j][1])][2]

\* Mutant: the patterns of an object are not consulted.
getPermissionActionGlobalOnly(command, args, cfg) ==
  LET bashPerms == Lookup(cfg, <<"bash">>)
  IN  IF bashPerms.t = "str" THEN bashPerms ELSE JStr("allow")

\* getPermissionAction(command, args, config)
getPermissionAction(command, args, cfg) ==
  LET bashPerms == Lookup(cfg, <<"bash">>)
  IN  IF bashPerms.t = "undef" THEN JStr("allow")
      ELSE IF bashPerms.t = "str" THEN bashPerms
      ELSE LET action == allStructured([head |-> command, tail |-> args],
                                       bashPerms)
           IN  IF action.t = "undef" THEN JStr("allow") ELSE action

\* A text is a sequence of pieces, a piece a word or a blank.
\* args.join(" ")
RECURSIVE Join(_)
Join(args) ==
  IF args = <<>> THEN <<>>
  ELSE IF Len(args) = 1 THEN <<args[1]>>
  ELSE <<args[1], " ">> \o Join(Tail(args))

Blank(piece) == piece = " " \/ piece = ""

\* String.prototype.trim(): the blanks at both ends are removed.
RECURSIVE Trim(_)
Trim(text) ==
  IF text = <<>> THEN <<>>
  ELSE IF Blank(Head(text)) THEN Trim(Tail(text))
  ELSE IF Blank(text[Len(text)]) THEN Trim(SubSeq(text, 1, Len(text) - 1))
  ELSE text

\* `${command} ${args.join(" ")}`.trim()
CommandText(command, args) == Trim(<<command, " ">> \o Join(args))

NoPermErr == [tag |-> "none", command |-> <<>>, reason |-> ""]
PermissionDeniedError(command, reason) ==
  [tag |-> "PermissionDeniedError", command |-> command, reason |-> reason]

\* What a check leaves in perm: the call (op, command and args, or workdir
\* and root), its outcome ("ok" or the error's tag), the error, and whether
\* it wrote a warning to the console.
NoCheck ==
  [op |-> "init", command |-> "", args |-> <<>>, workdir |-> <<>>,
   root |-> <<>>, outcome |-> "ok", err |-> NoPermErr, warned |-> FALSE]

\* Mutant: ask is let through with a warning, as checkWorkdir does.
checkCommandAskAllowed(command, args, cfg) ==
  LET action == getPermissionAction(command, args, cfg)
      call   == [NoCheck EXCEPT !.op = "checkCommand", !.command = command,
                                !.args = args]
  IN  IF IsStr(action, "deny") THEN
        [call EXCEPT !.outcome = "PermissionDeniedError",
           !.err = PermissionDeniedError(CommandText(command, args),
                     "Command is denied by configuration")]
      ELSE call

\* checkCommand(command, args)
checkCommand(command, args, cfg) ==
  LET action == getPermissionAction(command, args, cfg)
      call   == [NoCheck EXCEPT !.op = "checkCommand", !.command = command,
                                !.args = args]
  IN  IF IsStr(action, "deny") THEN
        [call EXCEPT !.outcome = "PermissionDeniedError",
           !.err = PermissionDeniedError(CommandText(command, args),
                     "Command is denied by configuration")]
      ELSE IF IsStr(action, "ask") THEN
        [call EXCEPT !.outcome = "PermissionDeniedError",
           !.err = PermissionDeniedError(CommandText(command, args),
                     "Command requires approval (ask mode not supported in MCP)")]
      ELSE call

\* A path is absolute or relative and has components, each a sequence of
\* characters: "/a/bc" is [abs |-> TRUE, parts |-> <<(<<"a">>), <<"b", "c">>>>].
AbsPath(parts) == [abs |-> TRUE, parts |-> parts]
RelPath(parts) == [abs |-> FALSE, parts |-> parts]

\* process.cwd(), as components.
Cwd == << <<"a">>, <<"b">> >>

\* path.resolve on components: "." and "" are dropped, ".." removes the
\* component before it (none at the root).
RECURSIVE Normalize(_, _)
Normalize(done, parts) ==
  IF parts = <<>> THEN done
  ELSE IF Head(parts) = <<".">> \/ Head(parts) = <<>>
  THEN Normalize(done, Tail(parts))
  ELSE IF Head(parts) = <<".", ".">>
  THEN Normalize(IF done = <<>> THEN <<>> ELSE SubSeq(done, 1, Len(done) - 1),
                 Tail(parts))
  ELSE Normalize(Append(done, Head(parts)), Tail(parts))

\* The components of path.resolve(p): a relative path starts at the
\* current directory.
Resolve(p) == Normalize(IF p.abs THEN <<>> ELSE Cwd, p.parts)

\* The string of an absolute normalized path, character by character:
\* "/" for the root, else "/" before each component, none at the end.
RECURSIVE PathString(_)
PathString(comps) ==
  IF comps = <<>> THEN <<"/">>
  ELSE IF Len(comps) = 1 THEN <<"/">> \o comps[1]
  ELSE <<"/">> \o comps[1] \o PathString(Tail(comps))

\* normalizePath(p): path.resolve(p), as a string.
normalizePath(p) == PathString(Resolve(p))

\* String.prototype.startsWith
StartsWith(str, prefix) ==
  Len(prefix) <= Len(str) /\ SubSeq(str, 1, Len(prefix)) = prefix

\* checkWorkdir(workdir, projectDir)
checkWorkdir(workdir, projectDir, cfg) ==
  LET call   == [NoCheck EXCEPT !.op = "checkWorkdir", !.workdir = workdir,
                                !.root = projectDir]
      normalized == normalizePath(workdir)
      normalizedProject == normalizePath(projectDir)
      ext    == Lookup(cfg, <<"external_directory">>)
      action == IF ext.t = "undef" THEN JStr("allow") ELSE ext
  IN  IF StartsWith(normalized, normalizedProject) THEN call
      ELSE IF IsStr(action, "deny") THEN
        [call EXCEPT !.outcome = "PermissionDeniedError",
           !.err = PermissionDeniedError(workdir,
                     "External directory access is denied")]
      ELSE IF IsStr(action, "ask") THEN [call EXCEPT !.warned = TRUE]
      ELSE call

\* ------------------------------------------------------------- the registry
\* The Map of the registry, id -> session object (by reference).
EmptyMap == [id \in {} |-> 0]
Has(map, id) == id \in DOMAIN map
Get(map, id) == map[id]
Refs(map) == {map[id] : id \in DOMAIN map}

\* map.set(id, ref)
MapSet(map, id, ref) ==
  [k \in DOMAIN map \cup {id} |-> IF k = id THEN ref ELSE map[k]]

\* Mutant: delete drops every entry of the map.
MapDeleteAll(map, id) == EmptyMap

\* map.delete(id)
MapDelete(map, id) == [k \in DOMAIN map \ {id} |-> map[k]]

\* toInfo(session): the public view (title, args, workdir and createdAt are
\* copied inputs and are left out of the model).
toInfo(s) ==
  [id |-> s.id, command |-> s.command, status |-> s.status,
   exitCode |-> s.exitCode, pid |-> s.pid, lineCount |-> Len(s.buffer)]

NoErr ==
  [tag |-> "none", id |-> "", status |-> "", command |-> "", message |-> ""]
PTYNotFoundError(id) == [NoErr EXCEPT !.tag = "PTYNotFoundError", !.id = id]
PTYNotRunningError(id, status) ==
  [NoErr EXCEPT !.tag = "PTYNotRunningError", !.id = id, !.status = status]
\* Mutant: the error is built without the text of the failure.
CommandExecutionErrorNoText(command, message) ==
  [NoErr EXCEPT !.tag = "CommandExecutionError", !.command = command]

CommandExecutionError(command, message) ==
  [NoErr EXCEPT !.tag = "CommandExecutionError", !.command = command,
                !.message = message]

\* What an operation leaves in res: the call (op, id, cleanup, data), the
\* session object it acted on (ref, 0 for none), its outcome ("ok" or the
\* error's tag), the error, what it wrote to a process, its return value
\* and, for kill and the exit callback, the session and its process as they
\* were when it began (pre, <<>> otherwise), and the notifications it
\* wrote to the console (logged).  A tool handler that fails leaves the
\* text it answers with (answer: the parts of "Error: ...").
BaseRes ==
  [op |-> "init", id |-> "", cleanup |-> FALSE, data |-> <<>>, ref |-> 0,
   outcome |-> "ok", err |-> NoErr, forwarded |-> <<>>, out |-> <<>>,
   pre |-> <<>>, logged |-> <<>>, answer |-> <<>>]

Snapshot(ref) == [obj |-> objs[ref], proc |-> procs[ref]]

Fail(op, id, err) ==
  [BaseRes EXCEPT !.op = op, !.id = id, !.outcome = err.tag, !.err = err]

\* The state after construction, but for the permission configuration.
InitBase ==
  /\ sessions = EmptyMap
  /\ objs = <<>>
  /\ procs = <<>>
  /\ shut = FALSE
  /\ res = BaseRes
  /\ rbLines = <<>>
  /\ rbPending = <<>>
  /\ rbCount = 0
  /\ rbHist = <<>>
  /\ rbChunks = <<>>
  /\ rbOut = [op |-> "init", args |-> <<>>, out |-> <<>>]
  /\ perm = NoCheck
  /\ calls = {}

\* The service as it starts with PTY_PERMISSIONS not set.
Init == InitBase /\ config = loadPermissionConfig(EnvUnset)

\* spawn(opts) when pty.spawn throws: nothing is created (the id drawn
\* before it is dropped).  (res.data: the command and the text thrown;
\* res.pre: the registry, the sessions and the processes as they were.)
SpawnFail(command, message) ==
  /\ ~shut
  /\ res' = [Fail("spawn", "", CommandExecutionError(command, message))
               EXCEPT !.data = <<command, message>>,
                      !.pre = [sessions |-> sessions, objs |-> objs,
                               procs |-> procs]]
  /\ UNCHANGED <<sessions, objs, procs, shut, rbVars, permVars, calls>>

\* The process behind a handle: alive; dead, its exit callback not yet
\* delivered (code: the exit code when it died on its own); or reaped, the
\* exit callback delivered.  kills counts the calls of kill() on the handle.
NewProc == [state |-> "alive", code |-> None, kills |-> 0]

\* spawn(opts): the id is drawn, the process allocated, the session object
\* built, the callbacks wired and the session put in the map under the id.
\* (notifyOnExit: opts.notifyOnExit, optional.)
SpawnWith(id, command, notifyOnExit) ==
  /\ ~shut
  /\ Len(objs) < MaxProcs
  /\ LET ref == Len(objs) + 1
         session == [id |-> id, command |-> command, status |-> "running",
                     exitCode |-> None, pid |-> ref, buffer |-> <<>>,
                     notifyOnExit |-> IF notifyOnExit = None THEN FALSE
                                      ELSE notifyOnExit[1]]
     IN  /\ objs' = Append(objs, session)
         /\ procs' = Append(procs, NewProc)
         /\ sessions' = MapSet(sessions, id, ref)
         /\ res' = [BaseRes EXCEPT !.op = "spawn", !.id = id, !.ref = ref,
                                   !.out = toInfo(session)]
  /\ UNCHANGED <<shut, rbVars, permVars, calls>>

\* spawn(opts) of a caller that gives no notifyOnExit.
Spawn(id, command) == SpawnWith(id, command, None)

\* Mutant: the data is cut at its first newline before it is written.
ForwardedFirstLine(data) == Head(Split(data))

\* The data written to the process: the caller's, as it is.
Forwarded(data) == data

\* Mutant: write without its test of the status.
WriteResultAnyStatus(id, data) ==
  IF ~Has(sessions, id) THEN
    [Fail("write", id, PTYNotFoundError(id)) EXCEPT !.data = data]
  ELSE
    [BaseRes EXCEPT !.op = "write", !.id = id, !.data = data,
                    !.ref = Get(sessions, id),
                    !.forwarded = <<[ref |-> Get(sessions, id),
                                     data |-> Forwarded(data)]>>]

\* write(id, data)
WriteResult(id, data) ==
  IF ~Has(sessions, id) THEN
    [Fail("write", id, PTYNotFoundError(id)) EXCEPT !.data = data]
  ELSE LET ref == Get(sessions, id) IN
    IF objs[ref].status # "running" THEN
      [Fail("write", id, PTYNotRunningError(id, objs[ref].status))
         EXCEPT !.data = data, !.ref = ref]
    ELSE
      [BaseRes EXCEPT !.op = "write", !.id = id, !.data = data, !.ref = ref,
                      !.forwarded = <<[ref |-> ref, data |-> Forwarded(data)]>>]

Write(id, data) ==
  /\ ~shut
  /\ res' = WriteResult(id, data)
  /\ UNCHANGED <<sessions, objs, procs, shut, rbVars, permVars, calls>>

\* read(id, offset, limit)
ReadResult(id, offset, limit) ==
  IF ~Has(sessions, id) THEN Fail("read", id, PTYNotFoundError(id))
  ELSE LET ref == Get(sessions, id)
           session == objs[ref]
           lines == BufRead(session.buffer, offset, limit)
           totalLines == Len(session.buffer)
       IN  [BaseRes EXCEPT !.op = "read", !.id = id, !.ref = ref,
              !.data = <<offset, limit>>,
              !.out = [lines |-> lines, totalLines |-> totalLines,
                       offset |-> offset,
                       hasMore |-> offset + Len(lines) < totalLines,
                       status |-> session.status]]

Read(id, offset, limit) ==
  /\ ~shut
  /\ res' = ReadResult(id, offset, limit)
  /\ UNCHANGED <<sessions, objs, procs, shut, rbVars, permVars, calls>>

\* search(id, pattern, offset, limit)
SearchResult(id, pattern, offset, limit) ==
  IF ~Has(sessions, id) THEN Fail("search", id, PTYNotFoundError(id))
  ELSE LET ref == Get(sessions, id)
           session == objs[ref]
           allMatches == BufSearch(session.buffer, pattern)
           totalMatches == Len(allMatches)
           paginatedMatches ==
             IF limit # None
             THEN Slice(allMatches, offset, offset + limit[1])
             ELSE Slice(allMatches, offset, Len(allMatches))
       IN  [BaseRes EXCEPT !.op = "search", !.id = id, !.ref = ref,
              !.data = <<pattern, offset, limit>>,
              !.out = [matches |-> paginatedMatches,
                       totalMatches |-> totalMatches,
                       totalLines |-> Len(session.buffer),
                       offset |-> offset,
                       hasMore |-> offset + Len(paginatedMatches) < totalMatches,
                       status |-> session.status]]

Search(id, pattern, offset, limit) ==
  /\ ~shut
  /\ res' = SearchResult(id, pattern, offset, limit)
  /\ UNCHANGED <<sessions, objs, procs, shut, rbVars, permVars, calls>>

\* list(): the views of the sessions of the map (their order, the map's
\* insertion order, is not modelled).
ListResult ==
  [BaseRes EXCEPT !.op = "list",
     !.out = {toInfo(objs[sessions[id]]) : id \in DOMAIN sessions}]

List ==
  /\ ~shut
  /\ res' = ListResult
  /\ UNCHANGED <<sessions, objs, procs, shut, rbVars, permVars, calls>>

\* process.kill(): the process is asked to terminate, and dies (a dead
\* one stays as it is; the error of killing it is swallowed).
ProcKill(pr) ==
  [pr EXCEPT !.state = IF @ = "alive" THEN "dead" ELSE @, !.kills = @ + 1]

\* Mutant: kill terminates and writes "killed" whatever the status.
ShouldKillAlways(s) == TRUE

\* kill's test before it terminates the process and writes "killed".
ShouldKill(s) == s.status = "running"

\* Mutant: kill empties the buffer of the session it finds.
KilledSessionCleared(s) ==
  [s EXCEPT !.status = IF ShouldKill(s) THEN "killed" ELSE @, !.buffer = <<>>]

\* kill's first branch: a running session becomes killed.
KilledSession(s) == IF ShouldKill(s) THEN [s EXCEPT !.status = "killed"] ELSE s

\* Mutant: the cleanup branch forgets buffer.clear().
CleanedSessionKeep(s, cleanup) == s

\* Mutant: the buffer is cleared without cleanup being asked.
CleanedSessionAlways(s, cleanup) == [s EXCEPT !.buffer = BufClear]

\* kill's cleanup branch, on the session: buffer.clear().
CleanedSession(s, cleanup) ==
  IF cleanup THEN [s EXCEPT !.buffer = BufClear] ELSE s

\* Mutant: killing an unknown id is accepted in silence.
KillResultLenient(id, cleanup) ==
  IF ~Has(sessions, id)
  THEN [BaseRes EXCEPT !.op = "kill", !.id = id, !.cleanup = cleanup]
  ELSE [BaseRes EXCEPT !.op = "kill", !.id = id, !.cleanup = cleanup,
                       !.ref = Get(sessions, id),
                       !.pre = Snapshot(Get(sessions, id))]

\* What kill(id, cleanup) returns.
KillResult(id, cleanup) ==
  IF ~Has(sessions, id)
  THEN [Fail("kill", id, PTYNotFoundError(id)) EXCEPT !.cleanup = cleanup]
  ELSE [BaseRes EXCEPT !.op = "kill", !.id = id, !.cleanup = cleanup,
                       !.ref = Get(sessions, id),
                       !.pre = Snapshot(Get(sessions, id))]

\* kill(id, cleanup)
Kill(id, cleanup) ==
  /\ ~shut
  /\ res' = KillResult(id, cleanup)
  /\ IF ~Has(sessions, id) THEN UNCHANGED <<sessions, objs, procs>>
     ELSE LET ref == Get(sessions, id) IN
       /\ procs' = IF ShouldKill(objs[ref])
                   THEN [procs EXCEPT ![ref] = ProcKill(@)] ELSE procs
       /\ objs' = [objs EXCEPT
                     ![ref] = CleanedSession(KilledSession(@), cleanup)]
       /\ sessions' = IF cleanup THEN MapDelete(sessions, id) ELSE sessions
  /\ UNCHANGED <<shut, rbVars, permVars, calls>>

\* Mutant: the finalizer terminates the process whatever the status.
ShutdownKillsAll(s) == TRUE

\* The finalizer's test before it terminates a session's process.
ShutdownKills(s) == s.status = "running"

\* The layer's finalizer: every session of the map has its process killed if
\* it is running and its buffer cleared; the map is replaced by an empty one.
\* (res.out: the sessions the map held.)
Shutdown ==
  /\ ~shut
  /\ procs' = [r \in 1..Len(procs) |->
                 IF r \in Refs(sessions) /\ ShutdownKills(objs[r])
                 THEN ProcKill(procs[r]) ELSE procs[r]]
  /\ objs' = [r \in 1..Len(objs) |->
                IF r \in Refs(sessions)
                THEN [objs[r] EXCEPT !.buffer = BufClear] ELSE objs[r]]
  /\ sessions' = EmptyMap
  /\ shut' = TRUE
  /\ res' = [BaseRes EXCEPT !.op = "shutdown", !.out = Refs(sessions)]
  /\ UNCHANGED <<rbVars, permVars, calls>>

\* A process terminates on its own with an exit code.
ProcExit(ref, code) ==
  /\ ref \in 1..Len(procs)
  /\ procs[ref].state = "alive"
  /\ procs' = [procs EXCEPT ![ref].state = "dead", ![ref].code = Some(code)]
  /\ res' = [BaseRes EXCEPT !.op = "procExit", !.ref = ref]
  /\ UNCHANGED <<sessions, objs, shut, rbVars, permVars, calls>>

\* The data callback of a session's process: buffer.append(data) on the
\* buffer of that session.  Output can arrive until the exit is delivered.
OnData(ref, data) ==
  /\ ref \in 1..Len(procs)
  /\ procs[ref].state # "reaped"
  /\ objs' = [objs EXCEPT ![ref].buffer = BufAppend(@, data)]
  /\ res' = [BaseRes EXCEPT !.op = "onData", !.id = objs[ref].id,
                            !.ref = ref, !.data = data]
  /\ UNCHANGED <<sessions, procs, shut, rbVars, permVars, calls>>

\* Array.prototype.reverse()
Reverse(arr) == [i \in 1..Len(arr) |-> arr[Len(arr) + 1 - i]]

\* l.trim().length > 0
NonBlankLine(l) == \E i \in 1..Len(l) : l[i] \notin {" ", "\t", "\r", NL}

\* The lines at the end of the buffer among which the last line is sought,
\* and the length a reported line is cut to.
NotifyWindow == 10
NotifyLineLength == 250

\* The last line the notification reports: the first non-blank line of the
\* reversed tail of the buffer, cut; not found when the tail has none (the
\* text "(no output)" is reported).
LastLine(lines) ==
  LET tail == Reverse(BufRead(lines, Max(0, Len(lines) - NotifyWindow), None))
  IN  IF \A i \in 1..Len(tail) : ~NonBlankLine(tail[i])
      THEN [found |-> FALSE, text |-> <<>>]
      ELSE LET lastLine == tail[CHOOSE i \in 1..Len(tail) :
                                  /\ NonBlankLine(tail[i])
                                  /\ \A j \in 1..(i - 1) : ~NonBlankLine(tail[j])]
           IN  [found |-> TRUE, text |-> Slice(lastLine, 0, NotifyLineLength)]

\* What the exit callback of a session writes to the console.
Notifications(session, exitCode) ==
  IF session.notifyOnExit
  THEN <<[id |-> session.id, exitCode |-> exitCode,
          lastLine |-> LastLine(session.buffer),
          totalLines |-> Len(session.buffer),
          hint |-> exitCode # 0]>>
  ELSE <<>>

\* Mutant: the exit callback without its test of the status.
ExitUpdateAnyStatus(s, exitCode) ==
  [s EXCEPT !.status = "exited", !.exitCode = Some(exitCode)]

\* Mutant: the exit callback updates nothing.
ExitUpdateNothing(s, exitCode) == s

\* The update the exit callback applies to the session it finds in the map.
ExitUpdate(s, exitCode) ==
  IF s.status = "running"
  THEN [s EXCEPT !.status = "exited", !.exitCode = Some(exitCode)]
  ELSE s

\* The exit callback of a session's process: it looks its id up in the map
\* and updates the session found there.  A process that was killed reports
\* whichever code the platform gives; then the notification is written for
\* the session the callback was wired for.  (res.ref: the process; res.pre:
\* the session found in the map, as it was.)
OnExit(ref, exitCode) ==
  /\ ref \in 1..Len(procs)
  /\ procs[ref].state = "dead"
  /\ procs[ref].code # None => exitCode = procs[ref].code[1]
  /\ procs' = [procs EXCEPT ![ref].state = "reaped", ![ref].code = None]
  /\ LET id == objs[ref].id IN
       /\ objs' = IF Has(sessions, id)
                  THEN [objs EXCEPT ![Get(sessions, id)] = ExitUpdate(@, exitCode)]
                  ELSE objs
       /\ res' = [BaseRes EXCEPT !.op = "onExit", !.id = id, !.ref = ref,
                                 !.out = exitCode,
                                 !.logged = Notifications(objs[ref], exitCode),
                                 !.pre = IF Has(sessions, id)
                                         THEN Snapshot(Get(sessions, id))
                                         ELSE <<>>]
  /\ UNCHANGED <<sessions, shut, rbVars, permVars, calls>>

Next ==
  \/ \E id \in Ids, command \in Commands : Spawn(id, command)
  \/ \E command \in Commands, message \in Failures : SpawnFail(command, message)
  \/ \E id \in Ids, data \in Datas : Write(id, data)
  \/ \E id \in Ids, offset \in Offsets, limit \in Limits : Read(id, offset, limit)
  \/ \E id \in Ids, pattern \in Patterns, offset \in Offsets, limit \in Limits :
       Search(id, pattern, offset, limit)
  \/ List
  \/ \E id \in Ids, cleanup \in BOOLEAN : Kill(id, cleanup)
  \/ Shutdown
  \/ \E ref \in 1..MaxProcs, code \in ExitCodes : ProcExit(ref, code)
  \/ \E ref \in 1..MaxProcs, data \in Chunks : OnData(ref, data)
  \/ \E ref \in 1..MaxProcs, exitCode \in ExitCodes : OnExit(ref, exitCode)

Spec == Init /\ [][Next]_vars

\* ------------------------------------------------- the ring buffer alone
\* One RingBuffer driven directly.  Its methods are synchronous: nothing
\* runs between two iterations of append's loop, which are separate steps
\* here only so that the state after each push is a state of the model.
\* append(data) starts: the chunk is split into its fragments.  (rbOut.pre:
\* the lines of the buffer as append found them.)
RbAppend(data) ==
  /\ rbPending = <<>>
  /\ rbCount < MaxAppends
  /\ rbPending' = Split(data)
  /\ rbCount' = rbCount + 1
  /\ rbChunks' = Append(rbChunks, data)
  /\ rbOut' = [op |-> "append", args |-> <<data>>, out |-> <<>>,
               pre |-> rbLines]
  /\ UNCHANGED <<rbLines, rbHist, regVars, permVars, calls>>

\* One iteration of append's loop.
RbPush ==
  /\ rbPending # <<>>
  /\ rbLines' = PushLine(rbLines, Head(rbPending))
  /\ rbHist' = Append(rbHist, Head(rbPending))
  /\ rbPending' = Tail(rbPending)
  /\ UNCHANGED <<rbCount, rbChunks, rbOut, regVars, permVars, calls>>

\* read(offset, limit)
RbRead(offset, limit) ==
  /\ rbPending = <<>>
  /\ rbOut' = [op |-> "read", args |-> <<offset, limit>>,
               out |-> BufRead(rbLines, offset, limit)]
  /\ UNCHANGED <<rbLines, rbPending, rbCount, rbHist, rbChunks, regVars, permVars, calls>>

\* search(pattern)
RbSearch(pattern) ==
  /\ rbPending = <<>>
  /\ rbOut' = [op |-> "search", args |-> <<pattern>>,
               out |-> BufSearch(rbLines, pattern)]
  /\ UNCHANGED <<rbLines, rbPending, rbCount, rbHist, rbChunks, regVars, permVars, calls>>

\* clear()
RbClear ==
  /\ rbPending = <<>>
  /\ rbLines' = BufClear
  /\ rbHist' = <<>>
  /\ rbChunks' = <<>>
  /\ rbOut' = [op |-> "clear", args |-> <<>>, out |-> <<>>]
  /\ UNCHANGED <<rbPending, rbCount, regVars, permVars, calls>>

NextBuf ==
  \/ \E data \in BufChunks : RbAppend(data)
  \/ RbPush
  \/ \E offset \in BufOffsets, limit \in BufLimits : RbRead(offset, limit)
  \/ \E pattern \in BufPatterns : RbSearch(pattern)
  \/ RbClear

SpecBuf == Init /\ [][NextBuf]_vars

\* ------------------------------------------- the permission service alone
PermCommands == {"git", "npm", "ls"}
ArgWords == {"push", "status"}
ArgLists == UNION {[1..n -> ArgWords] : n \in 0..MaxArgs}

\* The documents of PTY_PERMISSIONS.
BashGlobal(action) == JObj(<< <<(<<"bash">>), JStr(action)>> >>)
BashRules(rules) == JObj(<< <<(<<"bash">>), JObj(rules)>> >>)
DocGitPushDeny == BashRules(<< <<(<<"git", "push">>), JStr("deny")>> >>)
DocGitNested ==
  JObj(<< <<(<<"git">>), JObj(<< <<(<<"push">>), JStr("deny")>> >>)>> >>)
DocBashGitNested ==
  BashRules(<< <<(<<"git">>), JObj(<< <<(<<"push">>), JStr("deny")>> >>)>> >>)
ExternalDirectory(action) ==
  JObj(<< <<(<<"external_directory">>), JStr(action)>> >>)
Environments ==
  << EnvUnset,
     EnvDoc(ExternalDirectory("deny")),
     EnvDoc(ExternalDirectory("ask")),
     EnvDoc(ExternalDirectory("allow")),
     EnvInvalid,
     EnvDoc(JObj(<<>>)),
     EnvDoc(BashGlobal("allow")),
     EnvDoc(BashGlobal("deny")),
     EnvDoc(BashGlobal("ask")),
     EnvDoc(DocGitPushDeny),
     EnvDoc(DocGitNested),
     EnvDoc(DocBashGitNested),
     EnvDoc(BashRules(<< <<(<<"npm", "*">>), JStr("ask")>>,
                         <<(<<"git", "push">>), JStr("deny")>>,
                         <<(<<"git", "*">>), JStr("allow")>> >>)),
     EnvDoc(BashRules(<< <<(<<"*", "status">>), JStr("allow")>>,
                         <<(<<"*">>), JStr("deny")>> >>)) >>

\* The working directories and the roots given to checkWorkdir: the root
\* itself, paths inside it, its parent, a sibling whose name extends the
\* root's, and relative and ".."-paths that resolve inside and outside.
WorkdirPaths ==
  { AbsPath(<< <<"a">>, <<"b">> >>),
    AbsPath(<< <<"a">>, <<"b">>, <<"a">> >>),
    AbsPath(<< <<"a">>, <<"b">>, <<>> >>),
    AbsPath(<< <<"a">>, <<"b", "c">> >>),
    AbsPath(<< <<"a">> >>),
    AbsPath(<< <<"b">> >>),
    AbsPath(<<>>),
    AbsPath(<< <<"a">>, <<"b">>, <<".", ".">>, <<"b">>, <<"a">> >>),
    AbsPath(<< <<"a">>, <<"b">>, <<".", ".">>, <<"a">> >>),
    RelPath(<< <<"a">> >>),
    RelPath(<< <<".">> >>),
    RelPath(<< <<".", ".">> >>),
    RelPath(<< <<".", ".">>, <<"b", "c">> >>),
    RelPath(<< <<"a">>, <<".", ".">>, <<".", ".">>, <<"b">> >>) }
Roots == { AbsPath(<< <<"a">>, <<"b">> >>), RelPath(<< <<".">> >>), AbsPath(<<>>) }

\* The service as it starts with any of the environments.
InitPerm ==
  /\ InitBase
  /\ \E i \in 1..Len(Environments) :
       config = loadPermissionConfig(Environments[i])

\* A caller checks a command.
CheckCommand(command, args) ==
  /\ perm' = checkCommand(command, args, config)
  /\ UNCHANGED <<config, regVars, rbVars, calls>>

\* A caller checks a working directory.
CheckWorkdir(workdir, projectDir) ==
  /\ perm' = checkWorkdir(workdir, projectDir, config)
  /\ UNCHANGED <<config, regVars, rbVars, calls>>

NextPerm ==
  \/ \E command \in PermCommands, args \in ArgLists :
       CheckCommand(command, args)
  \/ \E workdir \in WorkdirPaths, projectDir \in Roots :
       CheckWorkdir(workdir, projectDir)

SpecPerm == InitPerm /\ [][NextPerm]_vars

\* The exit code of a process that ends on its own.
OwnExitCodes == {0}

\* ------------------------------------------- the registry's reads alone
\* Sessions whose output is read and searched page by page: offsets from
\* below zero to the capacity (beyond the last line), a limit omitted,
\* negative, zero or more.
PageChunks == {<<"a", NL, "a">>, <<"b">>, <<"b", NL, "a">>}
PageOffsets == (0 - 1)..maxLines
PageLimits == {None} \cup {Some(n) : n \in (0 - 1)..maxLines}

NextPage ==
  \/ \E id \in Ids, command \in Commands : Spawn(id, command)
  \/ \E ref \in 1..MaxProcs, data \in PageChunks : OnData(ref, data)
  \/ \E ref \in 1..MaxProcs, code \in OwnExitCodes : ProcExit(ref, code)
  \/ \E ref \in 1..MaxProcs, exitCode \in OwnExitCodes : OnExit(ref, exitCode)
  \/ \E id \in Ids, offset \in PageOffsets, limit \in PageLimits :
       Read(id, offset, limit)
  \/ \E id \in Ids, pattern \in Patterns, offset \in PageOffsets,
        limit \in PageLimits :
       Search(id, pattern, offset, limit)

SpecPage == Init /\ [][NextPage]_vars

\* ------------------------------------------------ the exit notification
\* Sessions spawned with and without notifyOnExit, that print, are killed
\* and end.  The output of a session is one of a few buffers a process can
\* leave under the capacity the code starts with (50000 lines, not the
\* capacity of this model): their lines are blank or not, short or longer
\* than the notification reports, and the last non-blank line is within
\* the last lines of the buffer or before them.
LongLine == [i \in 1..(NotifyLineLength + 1) |-> "x"]
BlankLines(n) == [i \in 1..n |-> IF i % 2 = 0 THEN <<" ">> ELSE <<>>]
ExitBuffers ==
  { << <<"x">> >>,
    << <<>> >>,
    << <<"x">>, <<"y">>, <<>>, <<" ">> >>,
    << LongLine >>,
    << <<"x">> >> \o BlankLines(NotifyWindow - 1),
    << <<"x">> >> \o BlankLines(NotifyWindow) }
NotifyOptions == {None, Some(TRUE), Some(FALSE)}

\* The data callbacks of a process that has printed nothing yet leave the
\* lines in its session's buffer.
Printed(ref, lines) ==
  /\ ref \in 1..Len(procs)
  /\ procs[ref].state # "reaped"
  /\ objs[ref].buffer = <<>>
  /\ objs' = [objs EXCEPT ![ref].buffer = lines]
  /\ res' = [BaseRes EXCEPT !.op = "onData", !.id = objs[ref].id, !.ref = ref]
  /\ UNCHANGED <<sessions, procs, shut, rbVars, permVars, calls>>

NextExit ==
  \/ \E id \in Ids, command \in Commands, notifyOnExit \in NotifyOptions :
       SpawnWith(id, command, notifyOnExit)
  \/ \E ref \in 1..MaxProcs, lines \in ExitBuffers : Printed(ref, lines)
  \/ \E id \in Ids, cleanup \in BOOLEAN : Kill(id, cleanup)
  \/ \E ref \in 1..MaxProcs, code \in ExitCodes : ProcExit(ref, code)
  \/ \E ref \in 1..MaxProcs, exitCode \in ExitCodes : OnExit(ref, exitCode)

SpecExit == Init /\ [][NextExit]_vars

\* ------------------------------------------------- interleaved handlers
\* spawn and kill are Effect generators: the runtime may run another fibre
\* between two of their effects.  Here each effect of a call is a step of
\* its own, with what follows it up to the next effect, and the calls in
\* flight are kept in calls; list has one effect.
MaxCalls == 2

\* spawn, up to its Ref.update: the id is drawn, the process allocated, the
\* session object built and the callbacks wired.
SpawnAllocate(id, command) ==
  /\ ~shut
  /\ Len(objs) < MaxProcs
  /\ Cardinality(calls) < MaxCalls
  /\ LET ref == Len(objs) + 1
         session == [id |-> id, command |-> command, status |-> "running",
                     exitCode |-> None, pid |-> ref, buffer |-> <<>>,
                     notifyOnExit |-> FALSE]
     IN  /\ objs' = Append(objs, session)
         /\ procs' = Append(procs, NewProc)
         /\ calls' = calls \cup {[op |-> "spawn", id |-> id, ref |-> ref,
                                  cleanup |-> FALSE, pc |-> "register"]}
         /\ res' = [BaseRes EXCEPT !.op = "spawnAllocate", !.id = id,
                                   !.ref = ref]
  /\ UNCHANGED <<sessions, shut, rbVars, permVars>>

\* spawn's Ref.update(sessions, map => map.set(id, session)) and its return.
SpawnRegister(c) ==
  /\ c.op = "spawn" /\ c.pc = "register"
  /\ sessions' = MapSet(sessions, c.id, c.ref)
  /\ calls' = calls \ {c}
  /\ res' = [BaseRes EXCEPT !.op = "spawn", !.id = c.id, !.ref = c.ref,
                            !.out = toInfo(objs[c.ref])]
  /\ UNCHANGED <<objs, procs, shut, rbVars, permVars>>

\* kill, up to its next effect: Ref.get, the lookup of the id and the tests
\* that choose the effect that follows.
KillLookup(id, cleanup) ==
  /\ ~shut
  /\ Cardinality(calls) < MaxCalls
  /\ IF ~Has(sessions, id) THEN
       /\ res' = [Fail("kill", id, PTYNotFoundError(id))
                    EXCEPT !.cleanup = cleanup]
       /\ UNCHANGED calls
     ELSE LET ref == Get(sessions, id)
              call == [op |-> "kill", id |-> id, ref |-> ref,
                       cleanup |-> cleanup, pc |-> "process"]
          IN  IF ShouldKill(objs[ref]) THEN
                /\ calls' = calls \cup {call}
                /\ res' = [BaseRes EXCEPT !.op = "killLookup", !.id = id,
                             !.cleanup = cleanup, !.ref = ref]
              ELSE IF cleanup THEN
                /\ calls' = calls \cup {[call EXCEPT !.pc = "cleanup"]}
                /\ res' = [BaseRes EXCEPT !.op = "killLookup", !.id = id,
                             !.cleanup = cleanup, !.ref = ref]
              ELSE
                /\ res' = [BaseRes EXCEPT !.op = "kill", !.id = id,
                             !.cleanup = cleanup, !.ref = ref]
                /\ UNCHANGED calls
  /\ UNCHANGED <<sessions, objs, procs, shut, rbVars, permVars>>

\* kill's Effect.sync: process.kill() and status = "killed", on the session
\* the lookup found.
KillProcess(c) ==
  /\ c.op = "kill" /\ c.pc = "process"
  /\ procs' = [procs EXCEPT ![c.ref] = ProcKill(@)]
  /\ objs' = [objs EXCEPT ![c.ref].status = "killed"]
  /\ calls' = IF c.cleanup THEN (calls \ {c}) \cup {[c EXCEPT !.pc = "cleanup"]}
              ELSE calls \ {c}
  /\ res' = [BaseRes EXCEPT !.op = IF c.cleanup THEN "killProcess" ELSE "kill",
                            !.id = c.id, !.cleanup = c.cleanup, !.ref = c.ref]
  /\ UNCHANGED <<sessions, shut, rbVars, permVars>>

\* kill's Ref.update: buffer.clear() on the session the lookup found and
\* map.delete(id).
KillCleanup(c) ==
  /\ c.op = "kill" /\ c.pc = "cleanup"
  /\ objs' = [objs EXCEPT ![c.ref] = CleanedSession(@, c.cleanup)]
  /\ sessions' = MapDelete(sessions, c.id)
  /\ calls' = calls \ {c}
  /\ res' = [BaseRes EXCEPT !.op = "kill", !.id = c.id, !.cleanup = c.cleanup,
                            !.ref = c.ref]
  /\ UNCHANGED <<procs, shut, rbVars, permVars>>

NextCalls ==
  \/ \E id \in Ids, command \in Commands : SpawnAllocate(id, command)
  \/ \E c \in calls : SpawnRegister(c)
  \/ \E id \in Ids, cleanup \in BOOLEAN : KillLookup(id, cleanup)
  \/ \E c \in calls : KillProcess(c)
  \/ \E c \in calls : KillCleanup(c)
  \/ List
  \/ \E ref \in 1..MaxProcs, code \in OwnExitCodes : ProcExit(ref, code)
  \/ \E ref \in 1..MaxProcs, exitCode \in OwnExitCodes : OnExit(ref, exitCode)

SpecCalls == Init /\ [][NextCalls]_vars

\* ------------------------------------------------ the escape-sequence codec
\* A text is a sequence of characters.  The control characters ETX and EOT
\* and the characters with no name of their own are written as atoms.
ETX == "<ETX>"
EOT == "<EOT>"
CR == "\r"
TAB == "\t"
BACKSLASH == "\\"
\* The characters String.prototype.trim() and \s take for blanks.
Whitespace == {" ", TAB, NL, CR}

HexDigits ==
  << "0", "1", "2", "3", "4", "5", "6", "7", "8", "9",
     "a", "b", "c", "d", "e", "f" >>
UpperHexDigits == << "A", "B", "C", "D", "E", "F" >>
IsHex(c) ==
  \/ \E i \in 1..Len(HexDigits) : HexDigits[i] = c
  \/ \E i \in 1..Len(UpperHexDigits) : UpperHexDigits[i] = c
HexValue(c) ==
  IF \E i \in 1..Len(HexDigits) : HexDigits[i] = c
  THEN (CHOOSE i \in 1..Len(HexDigits) : HexDigits[i] = c) - 1
  ELSE (CHOOSE i \in 1..Len(UpperHexDigits) : UpperHexDigits[i] = c) + 9
\* parseInt(digits, 16)
RECURSIVE parseInt16(_)
parseInt16(digits) ==
  IF digits = <<>> THEN 0
  ELSE 16 * parseInt16(SubSeq(digits, 1, Len(digits) - 1))
         + HexValue(digits[Len(digits)])
AllHex(digits) == \A i \in 1..Len(digits) : IsHex(digits[i])

\* String.fromCharCode(code)
fromCharCode(code) ==
  CASE code = 3 -> ETX
    [] code = 4 -> EOT
    [] code = 9 -> TAB
    [] code = 10 -> NL
    [] code = 13 -> CR
    [] code = 32 -> " "
    [] code = 92 -> BACKSLASH
    [] code = 108 -> "l"
    [] code = 110 -> "n"
    [] OTHER -> "<" \o ToString(code) \o ">"

\* Mutant: the character an escape produces is read again with the text
\* that follows it.
RECURSIVE parseEscapeSequencesRescan(_)
parseEscapeSequencesRescan(input) ==
  IF input = <<>> THEN <<>>
  ELSE IF Head(input) # BACKSLASH
  THEN <<Head(input)>> \o parseEscapeSequencesRescan(Tail(input))
  ELSE IF Len(input) >= 4 /\ input[2] = "x" /\ AllHex(SubSeq(input, 3, 4))
  THEN parseEscapeSequencesRescan(
         <<fromCharCode(parseInt16(SubSeq(input, 3, 4)))>>
           \o SubSeq(input, 5, Len(input)))
  ELSE IF Len(input) >= 6 /\ input[2] = "u" /\ AllHex(SubSeq(input, 3, 6))
  THEN parseEscapeSequencesRescan(
         <<fromCharCode(parseInt16(SubSeq(input, 3, 6)))>>
           \o SubSeq(input, 7, Len(input)))
  ELSE IF Len(input) >= 2 /\ input[2] \in {"n", "r", "t", BACKSLASH}
  THEN parseEscapeSequencesRescan(
         << CASE input[2] = "n" -> NL
              [] input[2] = "r" -> CR
              [] input[2] = "t" -> TAB
              [] OTHER -> BACKSLASH >>
           \o SubSeq(input, 3, Len(input)))
  ELSE <<BACKSLASH>> \o parseEscapeSequencesRescan(Tail(input))

\* parseEscapeSequences(input): one pass of the pattern over the text from
\* the left; the text after a match is searched from the end of the match.
RECURSIVE parseEscapeSequences(_)
parseEscapeSequences(input) ==
  IF input = <<>> THEN <<>>
  ELSE IF Head(input) # BACKSLASH
  THEN <<Head(input)>> \o parseEscapeSequences(Tail(input))
  ELSE IF Len(input) >= 4 /\ input[2] = "x" /\ AllHex(SubSeq(input, 3, 4))
  THEN <<fromCharCode(parseInt16(SubSeq(input, 3, 4)))>>
         \o parseEscapeSequences(SubSeq(input, 5, Len(input)))
  ELSE IF Len(input) >= 6 /\ input[2] = "u" /\ AllHex(SubSeq(input, 3, 6))
  THEN <<fromCharCode(parseInt16(SubSeq(input, 3, 6)))>>
         \o parseEscapeSequences(SubSeq(input, 7, Len(input)))
  ELSE IF Len(input) >= 2 /\ input[2] \in {"n", "r", "t", BACKSLASH}
  THEN << CASE input[2] = "n" -> NL
            [] input[2] = "r" -> CR
            [] input[2] = "t" -> TAB
            [] OTHER -> BACKSLASH >>
         \o parseEscapeSequences(SubSeq(input, 3, Len(input)))
  ELSE <<BACKSLASH>> \o parseEscapeSequences(Tail(input))

\* String.prototype.split(separator) for a separator that matches the runs
\* of the characters of seps: cur is the piece being read.
RECURSIVE SplitRuns(_, _, _)
SplitRuns(text, seps, cur) ==
  IF text = <<>> THEN <<cur>>
  ELSE IF Head(text) \in seps
  THEN LET rest == text
           k == CHOOSE n \in 1..Len(text) :
                  /\ \A i \in 1..n : text[i] \in seps
                  /\ (n = Len(text) \/ text[n + 1] \notin seps)
       IN  <<cur>> \o SplitRuns(SubSeq(rest, k + 1, Len(rest)), seps, <<>>)
  ELSE SplitRuns(Tail(text), seps, Append(cur, Head(text)))

\* String.prototype.trim() of a sequence of characters
RECURSIVE TrimChars(_)
TrimChars(line) ==
  IF line = <<>> THEN <<>>
  ELSE IF Head(line) \in Whitespace THEN TrimChars(Tail(line))
  ELSE IF line[Len(line)] \in Whitespace
  THEN TrimChars(SubSeq(line, 1, Len(line) - 1))
  ELSE line

\* The loop of extractCommands over the lines.
RECURSIVE KeepCommands(_)
KeepCommands(lines) ==
  IF lines = <<>> THEN <<>>
  ELSE LET trimmed == TrimChars(Head(lines))
       IN  IF trimmed # <<>> /\ Head(trimmed) # ETX /\ Head(trimmed) # EOT
           THEN <<trimmed>> \o KeepCommands(Tail(lines))
           ELSE KeepCommands(Tail(lines))

\* Mutant: the lines that begin with ETX or EOT are kept.
RECURSIVE KeepNonEmpty(_)
KeepNonEmpty(lines) ==
  IF lines = <<>> THEN <<>>
  ELSE (IF TrimChars(Head(lines)) # <<>> THEN <<TrimChars(Head(lines))>> ELSE <<>>)
       \o KeepNonEmpty(Tail(lines))
extractCommandsKeepControl(data) == KeepNonEmpty(SplitRuns(data, {NL, CR}, <<>>))

\* extractCommands(data)
extractCommands(data) == KeepCommands(SplitRuns(data, {NL, CR}, <<>>))

\* The string of a sequence of characters.
RECURSIVE Str(_)
Str(chars) == IF chars = <<>> THEN "" ELSE Head(chars) \o Str(Tail(chars))

RECURSIVE Strs(_)
Strs(words) ==
  IF words = <<>> THEN <<>> ELSE <<Str(Head(words))>> \o Strs(Tail(words))

\* parseCommand(commandLine): the command and the arguments are strings.
parseCommand(commandLine) ==
  LET parts == SelectSeq(SplitRuns(commandLine, Whitespace, <<>>),
                         LAMBDA p : p # <<>>)
  IN  [command |-> IF parts = <<>> THEN "" ELSE Str(parts[1]),
       args |-> IF parts = <<>> THEN <<>> ELSE Strs(Tail(parts))]

\* ------------------------------------------------------ the tool handlers
\* The parameters of the tools.
ToolCommands == {"ls", "rm"}
ToolArgs == {<<>>, <<"x">>}
\* workdir: not supplied, inside the directory of the server, outside it.
ToolWorkdirs ==
  { None,
    Some(AbsPath(<< <<"a">>, <<"b">>, <<"a">> >>)),
    Some(AbsPath(<< <<"b">> >>)) }
\* data of pty_write, as the caller sends it (escapes not yet decoded).
ToolDatas ==
  { <<"l", "s", BACKSLASH, "n">>,
    <<"l", "s", BACKSLASH, "n", "r", "m", " ", "x", BACKSLASH, "n">>,
    <<"r", "m", " ", "x", NL, "l", "s", NL>>,
    <<BACKSLASH, "x", "0", "3">> }

\* The documents of PTY_PERMISSIONS the server is started with.
ToolEnvironments ==
  << EnvUnset,
     EnvDoc(JObj(<< <<(<<"bash">>),
                      JObj(<< <<(<<"rm", "*">>), JStr("deny")>>,
                              <<(<<"*">>), JStr("allow")>> >>)>>,
                    <<(<<"external_directory">>), JStr("deny")>> >>)),
     EnvDoc(BashGlobal("ask")) >>

InitTools ==
  /\ InitBase
  /\ \E i \in 1..Len(ToolEnvironments) :
       config = loadPermissionConfig(ToolEnvironments[i])

\* Mutant: the working directory is not checked.
SpawnChecksCommandOnly(command, args, workdir) ==
  checkCommand(command, args, config)

\* The checks of pty_spawn, in their order: the result of the first that
\* rejects, of the last when none does.
SpawnChecks(command, args, workdir) ==
  LET c == checkCommand(command, args, config)
  IN  IF c.outcome # "ok" THEN c
      ELSE IF workdir # None THEN checkWorkdir(workdir[1], AbsPath(Cwd), config)
      ELSE c

\* pty_spawn(params): the checks, then manager.spawn, which either throws
\* (message: the text thrown) or creates the session under the id drawn.
\* (res.data: the parameters; res.pre: the registry, the sessions and the
\* processes as they were.)
PtySpawn(id, command, args, workdir, message) ==
  /\ ~shut
  /\ LET chk == SpawnChecks(command, args, workdir)
         call == [BaseRes EXCEPT !.op = "pty_spawn",
                    !.data = <<command, args, workdir>>,
                    !.pre = [sessions |-> sessions, objs |-> objs,
                             procs |-> procs]]
         ref == Len(objs) + 1
         session == [id |-> id, command |-> command, status |-> "running",
                     exitCode |-> None, pid |-> ref, buffer |-> <<>>,
                     notifyOnExit |-> FALSE]
     IN  IF chk.outcome # "ok" THEN
           /\ res' = [call EXCEPT !.outcome = chk.outcome, !.err = chk.err]
           /\ UNCHANGED <<sessions, objs, procs>>
         ELSE IF message # None THEN
           /\ res' = [call EXCEPT !.outcome = "CommandExecutionError",
                        !.err = CommandExecutionError(command, message[1])]
           /\ UNCHANGED <<sessions, objs, procs>>
         ELSE
           /\ Len(objs) < MaxProcs
           /\ objs' = Append(objs, session)
           /\ procs' = Append(procs, NewProc)
           /\ sessions' = MapSet(sessions, id, ref)
           /\ res' = [call EXCEPT !.id = id, !.ref = ref,
                                  !.out = toInfo(session)]
  /\ UNCHANGED <<shut, rbVars, permVars, calls>>

\* The loop of pty_write over the command lines: the result of the first
\* check that rejects, no rejection when every line passes.
RECURSIVE CheckLines(_)
CheckLines(commands) ==
  IF commands = <<>> THEN NoCheck
  ELSE LET parsed == parseCommand(Head(commands))
           c == IF parsed.command # ""
                THEN checkCommand(parsed.command, parsed.args, config)
                ELSE NoCheck
       IN  IF c.outcome # "ok" THEN c ELSE CheckLines(Tail(commands))

\* Mutant: only the first command line is checked.
WriteChecksFirstLine(commands) ==
  IF commands = <<>> THEN NoCheck ELSE CheckLines(<<Head(commands)>>)

\* The checks pty_write makes before it writes.
WriteChecks(commands) == CheckLines(commands)

\* The texts the handlers answer an error with (catchAll).
NotFoundText(id) == <<"PTY session not found: ", id>>
WriteErrorText(err) ==
  CASE err.tag = "PTYNotFoundError" -> NotFoundText(err.id)
    [] err.tag = "PTYNotRunningError" ->
         <<"PTY session ", err.id, " is not running (status: ", err.status, ")">>
    [] err.tag = "PermissionDeniedError" -> <<"Permission denied: ", err.reason>>
    [] OTHER -> <<>>

\* pty_write(params)  (res.data: the data as the caller sent it.)
PtyWriteResult(id, data) ==
  LET parsedData == parseEscapeSequences(data)
      commands == extractCommands(parsedData)
      chk == WriteChecks(commands)
      written == WriteResult(id, parsedData)
  IN  IF chk.outcome # "ok" THEN
        [BaseRes EXCEPT !.op = "pty_write", !.id = id, !.data = data,
                        !.outcome = chk.outcome, !.err = chk.err,
                        !.answer = WriteErrorText(chk.err)]
      ELSE [written EXCEPT !.op = "pty_write", !.data = data,
                           !.answer = WriteErrorText(written.err)]

PtyWrite(id, data) ==
  /\ ~shut
  /\ res' = PtyWriteResult(id, data)
  /\ UNCHANGED <<sessions, objs, procs, shut, rbVars, permVars, calls>>

\* new RegExp(pattern) throws for a pattern that does not compile: of the
\* patterns here, the lone parenthesis.
Compiles(pattern) == pattern # "("
SyntaxError == "SyntaxError"
InvalidRegexError(pattern, message) ==
  [tag |-> "InvalidRegexError", pattern |-> pattern, message |-> message]

\* The limit pty_read passes when the caller gives none.
DefaultLimit == 500
OrElse(opt, default) == IF opt = None THEN default ELSE opt[1]

ReadErrorText(err) ==
  CASE err.tag = "PTYNotFoundError" -> NotFoundText(err.id)
    [] err.tag = "InvalidRegexError" ->
         <<"Invalid regex pattern \"", err.pattern, "\": ", err.message>>
    [] OTHER -> <<>>

\* pty_read(params): a search when a pattern is given (an empty pattern is
\* none), a read otherwise.  (res.data: pattern, offset and limit as the
\* caller gave them; ignoreCase is left out, patterns match as they are.)
PtyReadResult(id, pattern, offset, limit) ==
  LET call == [BaseRes EXCEPT !.op = "pty_read", !.id = id,
                              !.data = <<pattern, offset, limit>>]
      result == IF pattern # None
                THEN SearchResult(id, pattern[1], OrElse(offset, 0),
                                  Some(OrElse(limit, DefaultLimit)))
                ELSE ReadResult(id, OrElse(offset, 0),
                                Some(OrElse(limit, DefaultLimit)))
  IN  IF pattern # None /\ ~Compiles(pattern[1]) THEN
        LET err == InvalidRegexError(pattern[1], SyntaxError)
        IN  [call EXCEPT !.outcome = err.tag, !.err = err,
                         !.answer = ReadErrorText(err)]
      ELSE [result EXCEPT !.op = "pty_read",
                          !.data = <<pattern, offset, limit>>,
                          !.answer = ReadErrorText(result.err)]

PtyRead(id, pattern, offset, limit) ==
  /\ ~shut
  /\ res' = PtyReadResult(id, pattern, offset, limit)
  /\ UNCHANGED <<sessions, objs, procs, shut, rbVars, permVars, calls>>

\* pty_kill(params): the session is sought in list(), then kill(id,
\* cleanup ?? false).  (res.out: the view of the session found.)
PtyKill(id, cleanup) ==
  /\ ~shut
  /\ LET listed == ListResult.out
         found == {s \in listed : s.id = id}
         flag == OrElse(cleanup, FALSE)
     IN  IF found = {} THEN
           /\ res' = [BaseRes EXCEPT !.op = "pty_kill", !.id = id,
                        !.cleanup = flag, !.outcome = "string",
                        !.answer = NotFoundText(id)]
           /\ UNCHANGED <<sessions, objs, procs>>
         ELSE LET ref == Get(sessions, id) IN
           /\ procs' = IF ShouldKill(objs[ref])
                       THEN [procs EXCEPT ![ref] = ProcKill(@)] ELSE procs
           /\ objs' = [objs EXCEPT
                         ![ref] = CleanedSession(KilledSession(@), flag)]
           /\ sessions' = IF flag THEN MapDelete(sessions, id) ELSE sessions
           /\ res' = [KillResult(id, flag) EXCEPT !.op = "pty_kill",
                        !.out = CHOOSE s \in found : TRUE]
  /\ UNCHANGED <<shut, rbVars, permVars, calls>>

\* What the tools are called with.
ToolPatterns == {None, Some("a"), Some("(")}
ToolOffsets == {None, Some(1)}
ToolLimits == {None}
ToolCleanups == {None, Some(TRUE)}

\* The server with its tools: sessions are created, written to, read and
\* killed through the handlers, and end on their own.
NextTools ==
  \/ \E id \in Ids, command \in ToolCommands, args \in ToolArgs,
        workdir \in ToolWorkdirs, message \in {None} \cup {Some(f) : f \in Failures} :
       PtySpawn(id, command, args, workdir, message)
  \/ \E id \in Ids, data \in ToolDatas : PtyWrite(id, data)
  \/ \E id \in Ids, pattern \in ToolPatterns, offset \in ToolOffsets,
        limit \in ToolLimits :
       PtyRead(id, pattern, offset, limit)
  \/ \E id \in Ids, cleanup \in ToolCleanups : PtyKill(id, cleanup)
  \/ \E ref \in 1..MaxProcs, code \in OwnExitCodes : ProcExit(ref, code)
  \/ \E ref \in 1..MaxProcs, code \in OwnExitCodes : OnExit(ref, code)

SpecTools == InitTools /\ [][NextTools]_vars

\* ------------------------------------------------------- the codec alone
\* The functions of the codec applied to texts, and pty_write given the
\* same texts for sessions of a server started with any of the documents.
MaxText == 3
RECURSIVE TextsOver(_, _)
TextsOver(alphabet, n) ==
  IF n = 0 THEN {<<>>}
  ELSE LET shorter == TextsOver(alphabet, n - 1)
       IN  shorter \cup {Append(t, c) : t \in shorter, c \in alphabet}
\* Texts with line ends, blanks and control characters in every place.
LineTexts ==
  TextsOver({"l", " ", NL, ETX}, MaxText)
    \cup { <<EOT, "l">>, <<"l", CR, "l">>, <<"l", CR, NL, "l">>,
           <<CR, "l", TAB, CR>>, <<"l", NL, CR, EOT, "l">> }
\* Texts with backslashes: whole escapes, escapes cut short, and escapes
\* that follow an escaped backslash.
EscapeTexts ==
  TextsOver({BACKSLASH, "n", "x", "l"}, MaxText)
    \cup { <<BACKSLASH, "r">>, <<BACKSLASH, "t">>,
           <<BACKSLASH, "x", "0", "3">>, <<BACKSLASH, "x", "6", "E">>,
           <<BACKSLASH, "x", "0">>, <<BACKSLASH, "x", "0", "g">>,
           <<BACKSLASH, "u", "0", "0", "0", "4">>,
           <<BACKSLASH, "u", "0", "0", "0">>,
           <<BACKSLASH, "x", "5", "c", "n">>,
           <<BACKSLASH, BACKSLASH, "x", "0", "3">> }

ParseEscapeSequences(input) ==
  /\ res' = [BaseRes EXCEPT !.op = "parseEscapeSequences", !.data = input,
                            !.out = parseEscapeSequences(input)]
  /\ UNCHANGED <<sessions, objs, procs, shut, rbVars, permVars, calls>>

ExtractCommands(data) ==
  /\ res' = [BaseRes EXCEPT !.op = "extractCommands", !.data = data,
                            !.out = extractCommands(data)]
  /\ UNCHANGED <<sessions, objs, procs, shut, rbVars, permVars, calls>>

ParseCommand(commandLine) ==
  /\ res' = [BaseRes EXCEPT !.op = "parseCommand", !.data = commandLine,
                            !.out = parseCommand(commandLine)]
  /\ UNCHANGED <<sessions, objs, procs, shut, rbVars, permVars, calls>>

NextCodec ==
  \/ \E input \in EscapeTexts : ParseEscapeSequences(input)
  \/ \E data \in LineTexts : ExtractCommands(data)
  \/ \E commandLine \in LineTexts : ParseCommand(commandLine)
  \/ \E id \in Ids, command \in Commands : Spawn(id, command)
  \/ \E id \in Ids, data \in LineTexts : PtyWrite(id, data)

SpecCodec == InitTools /\ [][NextCodec]_vars

\* ------------------------------------------------------------------ claims
Terminal == {"exited", "killed"}
Registered(id) == id \in DOMAIN sessions

\* C1: the only status changes of a session object, in any step, are
\* running -> exited and running -> killed; a terminal status never changes.
C1_StatusMonotone ==
  [][\A ref \in 1..Len(objs) :
       objs'[ref].status # objs[ref].status
         => objs[ref].status = "running" /\ objs'[ref].status \in Terminal]_vars

\* C1 witness: a kill has acted on a session whose status was exited.
C1_Witness ==
  /\ res.op = "kill" /\ res.outcome = "ok"
  /\ res.pre.obj.status = "exited"
  /\ objs[res.ref].status = "exited"

\* C2: in the race of kill and exit there is one terminal write.  An exit
\* callback that finds the session killed leaves it killed, with no exit
\* code; a kill that finds the session exited leaves its status and exit
\* code and does not call the process's kill.
C2_KillExitRace ==
  /\ (res.op = "onExit" /\ res.pre # <<>> /\ res.pre.obj.status = "killed")
       => /\ objs[res.pre.obj.pid].status = "killed"
          /\ objs[res.pre.obj.pid].exitCode = None
  /\ (res.op = "kill" /\ res.outcome = "ok" /\ res.pre.obj.status = "exited")
       => /\ objs[res.ref].status = "exited"
          /\ objs[res.ref].exitCode = res.pre.obj.exitCode
          /\ procs[res.ref].kills = res.pre.proc.kills

\* C2 witness: the exit callback of a process has found its own session
\* killed before it.
C2_Witness ==
  /\ res.op = "onExit" /\ res.pre # <<>>
  /\ res.pre.obj.pid = res.ref
  /\ res.pre.obj.status = "killed"
  /\ procs[res.ref].kills = 1

\* C3: spawn never registers a session under an id the registry holds.
C3_SpawnIdFresh ==
  [][(res'.op = "spawn" /\ res'.outcome = "ok") => ~Registered(res'.id)]_vars

\* C4: write returns NotFound for an unknown id, NotRunning for a session
\* that is exited or killed, and otherwise succeeds, writing the given data
\* once, as it is, to the process of that session; it writes nothing in the
\* two error cases.  (write changes nothing of the registry: the state after
\* it is the state it ran in.)
C4_WriteOutcomes ==
  res.op = "write" =>
    IF ~Registered(res.id) THEN
      /\ res.outcome = "PTYNotFoundError"
      /\ res.forwarded = <<>>
    ELSE IF objs[sessions[res.id]].status \in Terminal THEN
      /\ res.outcome = "PTYNotRunningError"
      /\ res.forwarded = <<>>
    ELSE
      /\ res.outcome = "ok"
      /\ res.forwarded = <<[ref |-> sessions[res.id], data |-> res.data]>>

\* C4 witness: a write has succeeded.
C4_Witness ==
  res.op = "write" /\ res.outcome = "ok" /\ Len(res.forwarded) = 1

\* C5 as claimed: once the process of a session has terminated, a write to
\* the session returns NotRunning.
C5_WriteAfterProcessDeath ==
  (res.op = "write" /\ res.ref # 0 /\ procs[res.ref].state # "alive")
    => res.outcome = "PTYNotRunningError"

\* C5 amended: once the exit callback of a session's process has been
\* delivered, or the session's status is exited or killed, a write to the
\* session returns NotRunning and writes nothing.
C5_WriteAfterExitDelivered ==
  (res.op = "write" /\ res.ref # 0
     /\ (procs[res.ref].state = "reaped" \/ objs[res.ref].status \in Terminal))
    => res.outcome = "PTYNotRunningError" /\ res.forwarded = <<>>

\* C5 witness: a write to a session whose process exited on its own and
\* whose exit callback was delivered.
C5_Witness ==
  /\ res.op = "write" /\ res.ref # 0
  /\ procs[res.ref].state = "reaped"
  /\ objs[res.ref].status = "exited"

\* C6: kill(id, true) on a registered session removes it from the registry
\* and empties its buffer, whatever its status; a running one has its
\* process terminated and becomes killed, any other keeps its status and
\* its process is left alone.  Then list() has no entry of that id, and
\* read, search, write and kill on it return NotFound.
C6_CleanupKill ==
  (res.op = "kill" /\ res.cleanup /\ res.outcome = "ok") =>
    /\ ~Registered(res.id)
    /\ res.pre.obj.id = res.id /\ res.pre.obj.pid = res.ref
    /\ objs[res.ref].buffer = <<>>
    /\ IF res.pre.obj.status = "running"
       THEN /\ objs[res.ref].status = "killed"
            /\ procs[res.ref].kills = res.pre.proc.kills + 1
            /\ procs[res.ref].state # "alive"
       ELSE /\ objs[res.ref].status = res.pre.obj.status
            /\ procs[res.ref] = res.pre.proc
    /\ \A info \in ListResult.out : info.id # res.id
    /\ \A offset \in Offsets, limit \in Limits :
         /\ ReadResult(res.id, offset, limit).outcome = "PTYNotFoundError"
         /\ \A pattern \in Patterns :
              SearchResult(res.id, pattern, offset, limit).outcome
                = "PTYNotFoundError"
    /\ \A data \in Datas :
         WriteResult(res.id, data).outcome = "PTYNotFoundError"
    /\ \A cleanup \in BOOLEAN :
         KillResult(res.id, cleanup).outcome = "PTYNotFoundError"

\* C6 witness: a cleanup-kill has removed an exited session whose buffer
\* held lines.
C6_Witness ==
  /\ res.op = "kill" /\ res.cleanup /\ res.outcome = "ok"
  /\ res.pre.obj.status = "exited"
  /\ res.pre.obj.buffer # <<>>

\* C7: kill(id, false) on a registered session leaves it registered, with
\* status killed if it was running and its status unchanged otherwise, and
\* leaves its buffer as it was: a read after the kill returns the lines a
\* read before it returned.
C7_PlainKill ==
  (res.op = "kill" /\ ~res.cleanup /\ res.outcome = "ok") =>
    /\ Registered(res.id) /\ sessions[res.id] = res.ref
    /\ res.pre.obj.pid = res.ref
    /\ objs[res.ref].status \in Terminal
    /\ objs[res.ref].status =
         (IF res.pre.obj.status = "running" THEN "killed"
          ELSE res.pre.obj.status)
    /\ objs[res.ref].buffer = res.pre.obj.buffer
    /\ \A offset \in Offsets, limit \in Limits :
         /\ ReadResult(res.id, offset, limit).outcome = "ok"
         /\ ReadResult(res.id, offset, limit).out.lines
              = BufRead(res.pre.obj.buffer, offset, limit)

\* C7 witness: a plain kill has acted on a running session whose buffer
\* held lines.
C7_Witness ==
  /\ res.op = "kill" /\ ~res.cleanup /\ res.outcome = "ok"
  /\ res.pre.obj.status = "running"
  /\ res.pre.obj.buffer # <<>>
  /\ objs[res.ref].buffer # <<>>

\* C8: write, read, search and kill on an id that is not in the registry
\* return the NotFound error carrying that id and change nothing: not the
\* registry, no session, no buffer, no process.
C8_UnknownId ==
  [][(res'.op \in {"write", "read", "search", "kill"} /\ ~Registered(res'.id))
       => /\ res'.outcome = "PTYNotFoundError"
          /\ res'.err = PTYNotFoundError(res'.id)
          /\ res'.forwarded = <<>>
          /\ UNCHANGED <<sessions, objs, procs, shut>>]_vars

\* C8 witness: a kill on an id removed by a cleanup-kill has returned
\* NotFound while another session is registered.
C8_Witness ==
  /\ res.op = "kill" /\ res.outcome = "PTYNotFoundError"
  /\ \E ref \in 1..Len(objs) : objs[ref].id = res.id
  /\ DOMAIN sessions # {}

\* C9: after shutdown the registry is empty, list() returns nothing, the
\* buffers of the sessions it held are empty and no process started by a
\* spawn is alive.
C9_ShutdownLeavesNothing ==
  res.op = "shutdown" =>
    /\ DOMAIN sessions = {}
    /\ ListResult.out = {}
    /\ \A ref \in res.out : objs[ref].buffer = <<>>
    /\ \A ref \in 1..Len(procs) : procs[ref].state # "alive"

\* C10: the ring buffer never holds more than its capacity of lines, after
\* every push of a fragment and after every operation.
C10_LengthBounded == Len(rbLines) >= 0 /\ Len(rbLines) <= maxLines

\* C10 witness: more fragments than the capacity were pushed, and a chunk is
\* in the middle of being appended to the full buffer.
C10_Witness ==
  /\ Len(rbHist) > maxLines
  /\ Len(rbLines) = maxLines
  /\ rbPending # <<>>

\* The last n elements of a sequence.
LastN(seq, n) == SubSeq(seq, Len(seq) - n + 1, Len(seq))

\* C11: the buffer's content is the last min(capacity, total) of the
\* fragments pushed since the last clear, in the order they were pushed:
\* only the oldest lines are evicted, none is reordered, repeated or lost.
C11_ContentIsSuffix ==
  rbLines = LastN(rbHist, Min(maxLines, Len(rbHist)))

\* C11 witness: an append has ended after more fragments than the capacity,
\* and the lines kept differ from each other.
C11_Witness ==
  /\ rbPending = <<>> /\ rbOut.op = "append"
  /\ Len(rbHist) > maxLines
  /\ Len(rbLines) = maxLines
  /\ rbLines[1] # rbLines[Len(rbLines)]

\* A chunk that is one line of text: no newline but, possibly, a last one.
SingleLine(chunk) == \A i \in 1..(Len(chunk) - 1) : chunk[i] # NL
Unterminated(chunk) == \A i \in 1..Len(chunk) : chunk[i] # NL
\* The line of a single-line chunk: the chunk without its terminator.
LineOf(chunk) ==
  IF chunk # <<>> /\ chunk[Len(chunk)] = NL
  THEN SubSeq(chunk, 1, Len(chunk) - 1) ELSE chunk

\* C12 as claimed: N <= capacity single-line chunks, each with or without
\* its newline terminator, appended to an empty buffer leave N lines, the
\* lines of the chunks in append order.
C12_SingleLineChunks ==
  (/\ rbPending = <<>>
   /\ Len(rbChunks) <= maxLines
   /\ \A i \in 1..Len(rbChunks) : SingleLine(rbChunks[i]))
    => /\ Len(rbLines) = Len(rbChunks)
       /\ \A i \in 1..Len(rbChunks) : rbLines[i] = LineOf(rbChunks[i])

\* C12 amended: N <= capacity chunks that hold no newline, appended to an
\* empty buffer, leave N lines, the chunks themselves in append order.
C12_UnterminatedChunks ==
  (/\ rbPending = <<>>
   /\ Len(rbChunks) <= maxLines
   /\ \A i \in 1..Len(rbChunks) : Unterminated(rbChunks[i]))
    => rbLines = rbChunks

\* C12 witness: as many different chunks without a newline as the capacity
\* were appended to the empty buffer.
C12_Witness ==
  /\ rbPending = <<>> /\ rbOut.op = "append"
  /\ Len(rbChunks) = maxLines
  /\ \A i \in 1..Len(rbChunks) : Unterminated(rbChunks[i])
  /\ rbChunks[1] # rbChunks[Len(rbChunks)]
  /\ Len(rbLines) = maxLines

\* C13: read(offset, limit) on a buffer of L lines, for any integer offset
\* and a limit >= 0 or omitted, returns the lines at the 0-based positions
\* s .. min(L, s + limit) - 1 with s = max(0, offset), all lines from s
\* when the limit is omitted: nothing when s >= L, no line before s, and
\* not fewer than min(limit, L - s) lines.
C13_ReadWindow ==
  (rbOut.op = "read" /\ (rbOut.args[2] = None \/ rbOut.args[2][1] >= 0)) =>
    LET offset == rbOut.args[1]
        limit  == rbOut.args[2]
        L      == Len(rbLines)
        s      == IF offset < 0 THEN 0 ELSE offset
        e      == IF limit = None THEN L
                  ELSE IF s + limit[1] < L THEN s + limit[1] ELSE L
        out    == rbOut.out
    IN  /\ Len(out) = (IF e > s THEN e - s ELSE 0)
        /\ \A i \in 1..Len(out) : out[i] = rbLines[s + i]
        /\ s >= L => out = <<>>
        /\ (limit # None /\ s < L) =>
              Len(out) >= (IF limit[1] < L - s THEN limit[1] ELSE L - s)
        /\ (limit = None /\ s < L) => Len(out) = L - s

\* C13 witness: a read with a negative offset and no limit has returned
\* every line of a full buffer.
C13_Witness ==
  /\ rbOut.op = "read"
  /\ rbOut.args[1] < 0 /\ rbOut.args[2] = None
  /\ Len(rbLines) = maxLines
  /\ rbOut.out = rbLines

\* C14: search(pattern) returns one entry (i + 1, line) for each 0-based
\* position i whose line matches and no other entry, the position numbers
\* strictly increasing.  The numbers are positions in the current content:
\* with k lines evicted since the last clear, the entry numbered n is the
\* (k + n)-th fragment pushed.
C14_SearchPositions ==
  rbOut.op = "search" =>
    LET pattern == rbOut.args[1]
        out     == rbOut.out
        k       == Len(rbHist) - Len(rbLines)
    IN  /\ \A j \in 1..Len(out) :
             /\ out[j].lineNumber \in 1..Len(rbLines)
             /\ out[j].text = rbLines[out[j].lineNumber]
             /\ Test(pattern, out[j].text)
             /\ out[j].text = rbHist[k + out[j].lineNumber]
        /\ \A n \in 1..Len(rbLines) :
             Test(pattern, rbLines[n]) =>
               Cardinality({j \in 1..Len(out) : out[j].lineNumber = n}) = 1
        /\ \A j \in 1..(Len(out) - 1) : out[j].lineNumber < out[j + 1].lineNumber

\* C14 witness: after an eviction a search has found a line at position 1
\* that was not the first fragment pushed, and has passed over a line that
\* does not match.
C14_Witness ==
  /\ rbOut.op = "search"
  /\ Len(rbHist) > Len(rbLines)
  /\ Len(rbOut.out) = 1
  /\ rbOut.out[1].lineNumber = 1
  /\ Len(rbLines) = maxLines

\* C15: when spawn succeeds, the view it returns has status running, a
\* list() issued right after it holds an entry with the returned id, status
\* running and the pid of the process allocated, and the registry has grown
\* by that one session: the sessions it held are all still there.
C15_SpawnVisible ==
  [][(res'.op = "spawn" /\ res'.outcome = "ok") =>
       /\ res'.out.id = res'.id /\ res'.out.status = "running"
       /\ \E info \in ListResult'.out :
            /\ info.id = res'.id /\ info.status = "running"
            /\ info.pid = objs'[res'.ref].pid /\ info.pid # 0
       /\ res'.id \notin DOMAIN sessions
       /\ DOMAIN sessions' = DOMAIN sessions \cup {res'.id}
       /\ \A id \in DOMAIN sessions : sessions'[id] = sessions[id]
       /\ Cardinality(ListResult'.out) = Cardinality(ListResult.out) + 1]_vars

\* C16: when pty.spawn rejects the request, spawn returns the
\* CommandExecutionError carrying the command and the text of the failure,
\* puts no session in the registry, creates no session, buffer or process
\* and leaves every session as it was; the service then accepts further
\* operations.
C16_SpawnFailure ==
  (res.op = "spawn" /\ res.outcome # "ok") =>
    /\ res.outcome = "CommandExecutionError"
    /\ res.err.tag = "CommandExecutionError"
    /\ res.err.command = res.data[1] /\ res.err.message = res.data[2]
    /\ res.ref = 0
    /\ sessions = res.pre.sessions
    /\ objs = res.pre.objs
    /\ procs = res.pre.procs
    /\ ~shut
    /\ ENABLED List
    /\ ENABLED (\E id \in Ids, data \in Datas : Write(id, data))
    /\ ENABLED (\E id \in Ids, cleanup \in BOOLEAN : Kill(id, cleanup))

\* C16 witness: a spawn has failed while the registry held a running
\* session with output in its buffer.
C16_Witness ==
  /\ res.op = "spawn" /\ res.outcome = "CommandExecutionError"
  /\ \E id \in DOMAIN sessions :
       /\ objs[sessions[id]].status = "running"
       /\ objs[sessions[id]].buffer # <<>>

\* C17: an entry of the registry is removed or replaced only by
\* kill(id, true) on its id or by shutdown: no spawn, write, read, search,
\* list, kill(id, false), data callback or exit callback takes a session
\* out of the registry or puts another in its place.
C17_RemovedOnlyByCleanup ==
  [][\A id \in DOMAIN sessions :
       (id \notin DOMAIN sessions' \/ sessions'[id] # sessions[id]) =>
         \/ /\ res'.op = "kill" /\ res'.outcome = "ok"
            /\ res'.cleanup /\ res'.id = id
         \/ res'.op = "shutdown"]_vars

\* list() shows the id with status exited and the exit code.
ListShowsExited(id, code) ==
  \E info \in ListResult.out :
    info.id = id /\ info.status = "exited" /\ info.exitCode = Some(code)

\* C18: when the exit callback is delivered for a process that terminated
\* on its own with exit code c and on which no kill was called, before any
\* shutdown, list() shows the id of its session with status exited and exit
\* code c; and an id that list() shows exited with a code stays so in every
\* step but a cleanup-kill of that id and shutdown.
C18_ExitShown ==
  [][/\ \A id \in Ids, code \in ExitCodes :
          (/\ res'.op = "onExit" /\ ~shut
           /\ objs[res'.ref].id = id
           /\ procs[res'.ref].code = Some(code) /\ procs[res'.ref].kills = 0)
            => ListShowsExited(id, code)'
     /\ \A id \in Ids, code \in ExitCodes :
          ListShowsExited(id, code) =>
            \/ ListShowsExited(id, code)'
            \/ res'.op = "kill" /\ res'.cleanup /\ res'.id = id
            \/ res'.op = "shutdown"]_vars

\* The command line of a call: the command, then its arguments joined by
\* single blanks.
CommandLine(command, args) ==
  IF args = <<>> THEN <<command>> ELSE <<command, " ">> \o Join(args)

\* C19: checkCommand allows when no rule applies to the command (no rule
\* is configured, or the rules are a pattern map none of whose patterns
\* matches), and rejects with PermissionDeniedError carrying the command
\* line when the action resolved is deny or ask; a configuration of deny and
\* one of ask give results that differ in the reason only.
C19_CheckCommand ==
  perm.op = "checkCommand" =>
    LET bash   == Lookup(config, <<"bash">>)
        input  == [head |-> perm.command, tail |-> perm.args]
        noRule == \/ bash.t = "undef"
                  \/ /\ bash.t = "obj"
                     /\ \A i \in 1..Len(bash.v) : ~Matches(input, bash.v[i][1])
        action == getPermissionAction(perm.command, perm.args, config)
        denied == checkCommand(perm.command, perm.args, BashGlobal("deny"))
        asked  == checkCommand(perm.command, perm.args, BashGlobal("ask"))
    IN  /\ noRule => perm.outcome = "ok" /\ perm.err = NoPermErr
        /\ (IsStr(action, "deny") \/ IsStr(action, "ask")) =>
             /\ perm.outcome = "PermissionDeniedError"
             /\ perm.err.tag = "PermissionDeniedError"
             /\ perm.err.command = CommandLine(perm.command, perm.args)
             /\ perm.err.reason # ""
        /\ denied.outcome = "PermissionDeniedError"
        /\ asked.outcome = "PermissionDeniedError"
        /\ [denied EXCEPT !.err.reason = ""] = [asked EXCEPT !.err.reason = ""]

\* C19 witness: a command with arguments was rejected because the first
\* pattern of a map that matches it says ask.
C19_Witness ==
  /\ perm.op = "checkCommand" /\ perm.args # <<>>
  /\ Lookup(config, <<"bash">>).t = "obj"
  /\ IsStr(getPermissionAction(perm.command, perm.args, config), "ask")
  /\ perm.outcome = "PermissionDeniedError"

\* Two JSON values are the same value.
RECURSIVE SameJson(_, _)
SameJson(a, b) ==
  /\ a.t = b.t
  /\ a.t = "str" => a.v = b.v
  /\ a.t = "obj" =>
       /\ Len(a.v) = Len(b.v)
       /\ \A i \in 1..Len(a.v) :
            a.v[i][1] = b.v[i][1] /\ SameJson(a.v[i][2], b.v[i][2])

\* The result a scenario expects of the calls git push and git status.
PushRejectedStatusAllowed ==
  /\ (perm.op = "checkCommand" /\ perm.command = "git"
        /\ perm.args = <<"push">>) => perm.outcome = "PermissionDeniedError"
  /\ (perm.op = "checkCommand" /\ perm.command = "git"
        /\ perm.args = <<"status">>) => perm.outcome = "ok"

\* C20 as claimed: with the document {"git": {"push": "deny"}} loaded as
\* the configuration, or as its rules of commands ("bash"),
\* checkCommand("git", ["push"]) rejects and checkCommand("git", ["status"])
\* allows.
C20_NestedPolicy ==
  (\/ SameJson(config, loadPermissionConfig(EnvDoc(DocGitNested)))
   \/ SameJson(config, loadPermissionConfig(EnvDoc(DocBashGitNested))))
    => PushRejectedStatusAllowed

\* C20 amended: with the document {"bash": {"git push": "deny"}} loaded,
\* checkCommand("git", ["push"]) rejects and checkCommand("git", ["status"])
\* allows.
C20_BashPolicy ==
  SameJson(config, loadPermissionConfig(EnvDoc(DocGitPushDeny)))
    => PushRejectedStatusAllowed

\* C20 witness: git push was rejected under {"bash": {"git push": "deny"}}.
C20_Witness ==
  /\ SameJson(config, loadPermissionConfig(EnvDoc(DocGitPushDeny)))
  /\ perm.op = "checkCommand" /\ perm.command = "git"
  /\ perm.args = <<"push">>
  /\ perm.outcome = "PermissionDeniedError"
  /\ perm.err.command = <<"git", " ", "push">>

\* A path is the root or inside it: the components of the root are the
\* first components of the path.
Inside(pathComps, rootComps) ==
  /\ Len(rootComps) <= Len(pathComps)
  /\ SubSeq(pathComps, 1, Len(rootComps)) = rootComps

\* C21: checkWorkdir accepts every path that is the root or inside it,
\* whatever the external-directory action; a path outside the root it
\* accepts when the action is allow, ask or not set, with a warning for ask,
\* and rejects with PermissionDeniedError when the action is deny.
C21_CheckWorkdir ==
  perm.op = "checkWorkdir" =>
    LET inside == Inside(Resolve(perm.workdir), Resolve(perm.root))
        ext    == Lookup(config, <<"external_directory">>)
    IN  /\ inside => perm.outcome = "ok"
        /\ (~inside /\ ~IsStr(ext, "deny")) =>
             /\ perm.outcome = "ok"
             /\ IsStr(ext, "ask") => perm.warned
        /\ (~inside /\ IsStr(ext, "deny")) =>
             /\ perm.outcome = "PermissionDeniedError"
             /\ perm.err.tag = "PermissionDeniedError"

\* C28: with the external-directory action deny, checkWorkdir rejects every
\* path that, resolved to its absolute components, is neither the root nor
\* below it.
C28_DenyOutsideRoot ==
  (/\ perm.op = "checkWorkdir"
   /\ IsStr(Lookup(config, <<"external_directory">>), "deny")
   /\ ~Inside(Resolve(perm.workdir), Resolve(perm.root)))
    => perm.outcome = "PermissionDeniedError"

\* Whether the policy allows a command line of pty_write.
LineAllowed(line) ==
  checkCommand(parseCommand(line).command, parseCommand(line).args,
               config).outcome = "ok"

\* C22: pty_write forwards the data to write only if every command line
\* taken from the decoded data is allowed; if any is rejected it answers
\* with the permission denial and nothing is written, not even the lines
\* before the rejected one.
C22_WriteChecked ==
  res.op = "pty_write" =>
    LET parsedData == parseEscapeSequences(res.data)
        commands == extractCommands(parsedData)
    IN  /\ res.forwarded # <<>> =>
             /\ \A i \in 1..Len(commands) : LineAllowed(commands[i])
             /\ Len(res.forwarded) = 1
             /\ res.forwarded[1].data = parsedData
        /\ (\E i \in 1..Len(commands) : ~LineAllowed(commands[i])) =>
             /\ res.outcome = "PermissionDeniedError"
             /\ res.err.tag = "PermissionDeniedError"
             /\ res.forwarded = <<>>

\* A write to a running session whose first line is allowed and whose
\* second is rejected.
C22_Witness ==
  /\ res.op = "pty_write"
  /\ Has(sessions, res.id)
  /\ objs[Get(sessions, res.id)].status = "running"
  /\ LET commands == extractCommands(parseEscapeSequences(res.data))
     IN  /\ Len(commands) = 2
         /\ LineAllowed(commands[1])
         /\ ~LineAllowed(commands[2])
  /\ res.outcome = "PermissionDeniedError"
  /\ res.forwarded = <<>>

\* The registry, the sessions and the processes as pty_spawn found them.
RegistryAsBefore ==
  /\ sessions = res.pre.sessions
  /\ objs = res.pre.objs
  /\ procs = res.pre.procs

\* C23: pty_spawn allocates a process and registers a session only after
\* checkCommand has allowed the command and, when a workdir is supplied,
\* checkWorkdir(workdir, cwd) has accepted it; when either rejects, no
\* process is allocated and the registry is unchanged.
C23_SpawnChecked ==
  res.op = "pty_spawn" =>
    LET command == res.data[1]
        args == res.data[2]
        workdir == res.data[3]
        commandOk == checkCommand(command, args, config).outcome = "ok"
        workdirOk ==
          workdir # None =>
            checkWorkdir(workdir[1], AbsPath(Cwd), config).outcome = "ok"
    IN  /\ (res.outcome # "PermissionDeniedError" \/ ~RegistryAsBefore) =>
             commandOk /\ workdirOk
        /\ ~(commandOk /\ workdirOk) =>
             /\ res.outcome = "PermissionDeniedError"
             /\ res.err.tag = "PermissionDeniedError"
             /\ RegistryAsBefore

\* A spawn whose command is allowed and whose workdir is rejected, in a
\* server that has a session.
C23_Witness ==
  /\ res.op = "pty_spawn"
  /\ res.data[3] # None
  /\ checkCommand(res.data[1], res.data[2], config).outcome = "ok"
  /\ checkWorkdir(res.data[3][1], AbsPath(Cwd), config).outcome # "ok"
  /\ res.outcome = "PermissionDeniedError"
  /\ objs # <<>>
  /\ RegistryAsBefore

\* The positions of the newlines of a chunk, and the text between two of
\* them (the start and the end of the chunk count as newlines).
NewlinesOf(chunk) == {i \in 1..Len(chunk) : chunk[i] = NL}
FragmentOf(chunk, j) ==
  LET bounds == NewlinesOf(chunk) \cup {0, Len(chunk) + 1}
      lo == CHOOSE p \in bounds : Cardinality({q \in bounds : q < p}) = j - 1
      hi == CHOOSE p \in bounds : Cardinality({q \in bounds : q < p}) = j
  IN  SubSeq(chunk, lo + 1, hi - 1)

\* C24: when the append of a chunk with n newlines has ended, the buffer's
\* length is min(capacity, L + n + 1) for the length L it had before, and
\* its newest lines are the chunk's n + 1 fragments, each a line of its own
\* (an empty final fragment after a trailing newline, one empty line for an
\* empty chunk): nothing is merged with the line that ended the chunk
\* before.
C24_ChunkFragments ==
  (rbOut.op = "append" /\ rbPending = <<>>) =>
    LET chunk == rbOut.args[1]
        n == Cardinality(NewlinesOf(chunk))
        L == Len(rbOut.pre)
        kept == Min(maxLines, n + 1)
    IN  /\ Len(rbLines) = Min(maxLines, L + n + 1)
        /\ \A i \in 1..(Len(rbLines) - kept) :
             rbLines[i] = rbOut.pre[L - (Len(rbLines) - kept) + i]
        /\ \A j \in 1..kept :
             rbLines[Len(rbLines) - kept + j] = FragmentOf(chunk, n + 1 - kept + j)

\* An append of a chunk that ends with a newline has ended, after a chunk
\* that did not end with one.
C24_Witness ==
  /\ rbOut.op = "append" /\ rbPending = <<>>
  /\ Len(rbChunks) >= 2
  /\ rbChunks[Len(rbChunks)] = <<"a", NL>>
  /\ rbChunks[Len(rbChunks) - 1] = <<"a">>
  /\ rbLines = << <<"a">>, <<>> >>

\* C25: the matches search(id, pattern, offset, limit) returns are what
\* RingBuffer.read(offset, limit) would return from a buffer whose lines
\* are all the matches, for every integer offset and every limit: the
\* offset is clamped to zero and the page starts there.
C25_SearchPagedAsRead ==
  (res.op = "search" /\ res.outcome = "ok") =>
    LET pattern == res.data[1]
        offset == res.data[2]
        limit == res.data[3]
        allMatches == BufSearch(objs[res.ref].buffer, pattern)
    IN  res.out.matches = BufRead(allMatches, offset, limit)

\* The position (from 1) of the last line of a page of read, which starts
\* after the first max(offset, 0) lines.  For an empty page, a line lies
\* after it when one lies at or after the place where it starts.
LastReturned(offset, page) == Max(offset, 0) + Len(page)

\* C27: in the result of read, and of search over the matches, hasMore is
\* true exactly when a line (a match) lies after the last one returned, for
\* every integer offset; totalLines is the length of the buffer and status
\* the status of the session when the lines were taken.
C27_HasMore ==
  /\ (res.op = "read" /\ res.outcome = "ok") =>
       LET buffer == objs[res.ref].buffer
       IN  /\ res.out.hasMore <=>
                (res.out.lines # <<>>
                 /\ LastReturned(res.data[1], res.out.lines) < Len(buffer))
                \/ (res.out.lines = <<>> /\ Max(res.data[1], 0) < Len(buffer))
           /\ res.out.totalLines = Len(buffer)
           /\ res.out.status = objs[res.ref].status
  /\ (res.op = "search" /\ res.outcome = "ok") =>
       LET buffer == objs[res.ref].buffer
           allMatches == BufSearch(buffer, res.data[1])
       IN  /\ res.out.hasMore <=>
                (res.out.matches # <<>>
                 /\ \E i \in 1..Len(allMatches) :
                      allMatches[i].lineNumber
                        > res.out.matches[Len(res.out.matches)].lineNumber)
                \/ (res.out.matches = <<>>
                    /\ Max(res.data[2], 0) < Len(allMatches))
           /\ res.out.totalLines = Len(buffer)
           /\ res.out.status = objs[res.ref].status

\* C26: for every integer offset and every integer limit, zero and negative
\* ones too, read(offset, limit) returns at most max(limit, 0) lines, all
\* of them lines at positions from max(offset, 0) on.
C26_ReadAtMostLimit ==
  (rbOut.op = "read" /\ rbOut.args[2] # None) =>
    LET offset == rbOut.args[1]
        limit == rbOut.args[2][1]
        s == Max(offset, 0)
        out == rbOut.out
    IN  /\ Len(out) <= Max(limit, 0)
        /\ \A i \in 1..Len(out) :
             s + i <= Len(rbLines) /\ out[i] = rbLines[s + i]

\* The positions of the lines of a buffer that are not blank.
NonBlankPositions(lines) == {i \in 1..Len(lines) : NonBlankLine(lines[i])}
FirstChars(line, n) == SubSeq(line, 1, Min(Len(line), n))

\* C29: the exit callback of a session spawned with notify-on-exit writes
\* one notification, that of a session spawned without it none, and nothing
\* else writes one; the notification's last line is the last line of the
\* whole buffer that is not blank, cut to its first 250 characters, and is
\* missing only when the buffer has no such line; its total is the length
\* of the buffer.
C29_ExitNotification ==
  /\ res.op # "onExit" => res.logged = <<>>
  /\ res.op = "onExit" =>
       LET session == objs[res.ref]
           lines == session.buffer
       IN  /\ ~session.notifyOnExit => res.logged = <<>>
           /\ session.notifyOnExit =>
                /\ Len(res.logged) = 1
                /\ res.logged[1].id = session.id
                /\ res.logged[1].totalLines = Len(lines)
                /\ res.logged[1].lastLine.found <=> NonBlankPositions(lines) # {}
                /\ NonBlankPositions(lines) # {} =>
                     res.logged[1].lastLine.text =
                       FirstChars(lines[CHOOSE i \in NonBlankPositions(lines) :
                                          \A j \in NonBlankPositions(lines) : j <= i],
                                  NotifyLineLength)

\* The id of one session object only.
DistinctId(id, sessionObjs) ==
  Cardinality({r \in 1..Len(sessionObjs) : sessionObjs[r].id = id}) = 1

\* C30: with the effects of spawn, of kill and list() interleaved in any
\* order, no update of the registry is lost for distinct ids: the step that
\* registers a session adds its entry and changes no other, an entry leaves
\* the registry only in the cleanup step of a kill of its own id, which
\* removes no other, no step points an entry at another session, and the
\* list returned is the registry of the state list() ran in.
C30_MembershipAtomic ==
  [][/\ \A id \in DOMAIN sessions :
          IF id \in DOMAIN sessions'
          THEN DistinctId(id, objs') => sessions'[id] = sessions[id]
          ELSE res'.op = "kill" /\ res'.cleanup /\ res'.id = id
     /\ \A id \in DOMAIN sessions' \ DOMAIN sessions :
          /\ res'.op = "spawn" /\ res'.id = id
          /\ sessions'[id] = res'.ref
          /\ objs[res'.ref].id = id
     /\ (res'.op = "spawn" /\ res' # res) => res'.id \in DOMAIN sessions'
     /\ (res'.op = "kill" /\ res'.cleanup /\ res'.outcome = "ok" /\ calls' # calls) =>
          res'.id \notin DOMAIN sessions'
     /\ res'.op = "list" =>
          /\ res'.out = {toInfo(objs[sessions[id]]) : id \in DOMAIN sessions}
          /\ UNCHANGED <<sessions, objs>>]_vars

\* A spawn has registered its session between the lookup and the cleanup
\* of a kill of another session, and both are in the registry.
C30_Witness ==
  /\ res.op = "spawn"
  /\ \E c \in calls :
       /\ c.op = "kill" /\ c.pc = "cleanup" /\ c.id # res.id
       /\ c.id \in DOMAIN sessions
  /\ res.id \in DOMAIN sessions
  /\ sessions[res.id] = res.ref

\* The last call was a tool's, for an id the registry did not hold.
UnknownIdCall(ops) ==
  /\ res.op \in ops
  /\ res.id \notin DOMAIN sessions
  /\ res.ref = 0

\* C31: pty_read, pty_write and pty_kill called with an id that is not in
\* the registry answer with the session-not-found text, whatever the other
\* parameters are.
C31_UnknownIdNotFound ==
  UnknownIdCall({"pty_read", "pty_write", "pty_kill"}) =>
    res.answer = NotFoundText(res.id)

\* The segments of a text between its runs of newlines and carriage
\* returns, by the positions of their first and last characters, and the
\* positions of a segment's first and last characters that are not blank.
LineEnds == {NL, CR}
SegmentStarts(text) ==
  {i \in 1..Len(text) :
     text[i] \notin LineEnds /\ (i = 1 \/ text[i - 1] \in LineEnds)}
SegmentEnd(text, i) ==
  CHOOSE j \in i..Len(text) :
    /\ \A k \in i..j : text[k] \notin LineEnds
    /\ (j = Len(text) \/ text[j + 1] \in LineEnds)
Inked(text, i) ==
  {k \in i..SegmentEnd(text, i) : text[k] \notin Whitespace}
FirstOf(positions) == CHOOSE k \in positions : \A m \in positions : k <= m
LastOf(positions) == CHOOSE k \in positions : \A m \in positions : m <= k
\* The segments that are command lines: not blank, and not begun, after
\* trimming, by ETX or EOT.
CommandStarts(text) ==
  {i \in SegmentStarts(text) :
     /\ Inked(text, i) # {}
     /\ text[FirstOf(Inked(text, i))] \notin {ETX, EOT}}
TrimmedSegment(text, i) ==
  SubSeq(text, FirstOf(Inked(text, i)), LastOf(Inked(text, i)))
\* The k-th of the command lines of a text.
CommandStart(text, k) ==
  CHOOSE i \in CommandStarts(text) :
    Cardinality({m \in CommandStarts(text) : m < i}) = k - 1

\* C32: extractCommands returns, in their order, the trimmed segments of
\* its input between the runs of line ends that are not empty and do not
\* begin with ETX or EOT, and nothing else; so pty_write rejects a write
\* only for such a segment, and forwards the whole data to a running
\* session when every such segment is allowed, whatever the segments that
\* begin with ETX or EOT hold.
C32_ExtractCommands ==
  /\ res.op = "extractCommands" =>
       /\ Len(res.out) = Cardinality(CommandStarts(res.data))
       /\ \A k \in 1..Len(res.out) :
            res.out[k] = TrimmedSegment(res.data, CommandStart(res.data, k))
  /\ res.op = "pty_write" =>
       LET parsedData == parseEscapeSequences(res.data)
           allAllowed ==
             \A i \in CommandStarts(parsedData) :
               LineAllowed(TrimmedSegment(parsedData, i))
       IN  /\ res.outcome = "PermissionDeniedError" <=> ~allAllowed
           /\ (allAllowed /\ Has(sessions, res.id)
               /\ objs[Get(sessions, res.id)].status = "running") =>
                res.forwarded = <<[ref |-> Get(sessions, res.id),
                                   data |-> parsedData]>>

\* Data with a line that begins with ETX has been written to a running
\* session of a server whose policy rejects every command.
C32_Witness ==
  /\ res.op = "pty_write"
  /\ res.outcome = "ok"
  /\ res.forwarded # <<>>
  /\ ~LineAllowed(<<"l">>)
  /\ \E i \in SegmentStarts(res.data) :
       res.data[i] = ETX /\ SegmentEnd(res.data, i) > i

\* The length of the escape that is written at a position of a text: 2 for
\* a backslash before n, r, t or a backslash, 4 for \x and two hex digits,
\* 6 for \u and four hex digits, 0 where none is written.
EscapeLength(text, i) ==
  IF text[i] # BACKSLASH \/ i = Len(text) THEN 0
  ELSE IF text[i + 1] \in {"n", "r", "t", BACKSLASH} THEN 2
  ELSE IF /\ text[i + 1] = "x" /\ i + 3 <= Len(text)
          /\ \A k \in (i + 2)..(i + 3) : IsHex(text[k]) THEN 4
  ELSE IF /\ text[i + 1] = "u" /\ i + 5 <= Len(text)
          /\ \A k \in (i + 2)..(i + 5) : IsHex(text[k]) THEN 6
  ELSE 0
\* The positions where a pass from the left takes an escape: an escape is
\* written there and no escape taken further left reaches the position.
EscapeStarts(text) ==
  LET taken[i \in 1..Len(text)] ==
        /\ EscapeLength(text, i) > 0
        /\ \A j \in 1..(i - 1) : taken[j] => j + EscapeLength(text, j) <= i
  IN  {i \in 1..Len(text) : taken[i]}
\* The positions that give one character of the result each: the starts of
\* the escapes taken, and the characters outside them.
Units(text) ==
  {i \in 1..Len(text) :
     \A j \in EscapeStarts(text) : j < i => j + EscapeLength(text, j) <= i}
Unit(text, k) ==
  CHOOSE i \in Units(text) : Cardinality({m \in Units(text) : m < i}) = k - 1
\* The character an escape stands for.
Literal(text, i) ==
  CASE text[i + 1] = "n" -> NL
    [] text[i + 1] = "r" -> CR
    [] text[i + 1] = "t" -> TAB
    [] text[i + 1] = BACKSLASH -> BACKSLASH
    [] text[i + 1] = "x" ->
         fromCharCode(16 * HexValue(text[i + 2]) + HexValue(text[i + 3]))
    [] text[i + 1] = "u" ->
         fromCharCode(4096 * HexValue(text[i + 2]) + 256 * HexValue(text[i + 3])
                        + 16 * HexValue(text[i + 4]) + HexValue(text[i + 5]))

\* C33: parseEscapeSequences replaces, in one pass from the left, each of
\* \n, \r, \t, \\, \xHH and \uHHHH by the one character it stands for and
\* leaves every other character, the backslashes of other sequences
\* included, as it is; a character it has produced is not read again, so
\* backslash backslash n gives a backslash and an n, and a text without a
\* backslash comes back unchanged.
C33_SinglePass ==
  res.op = "parseEscapeSequences" =>
    /\ Len(res.out) = Cardinality(Units(res.data))
    /\ \A k \in 1..Len(res.out) :
         LET i == Unit(res.data, k)
         IN  res.out[k] = IF i \in EscapeStarts(res.data)
                          THEN Literal(res.data, i)
                          ELSE res.data[i]
    /\ (\A i \in 1..Len(res.data) : res.data[i] # BACKSLASH) =>
         res.out = res.data
    /\ res.data = <<BACKSLASH, BACKSLASH, "n">> => res.out = <<BACKSLASH, "n">>
    /\ res.data = <<BACKSLASH, "x", "0">> => res.out = res.data

\* An escaped backslash before a letter of an escape has been parsed.
C33_Witness ==
  /\ res.op = "parseEscapeSequences"
  /\ Len(res.data) >= 3
  /\ res.data[1] = BACKSLASH /\ res.data[2] = BACKSLASH
  /\ res.data[3] \in {"n", "x"}
  /\ res.out[1] = BACKSLASH

\* C34: a session of the registry has an exit code exactly when its status
\* is exited (a running or a killed one has none), and an exited one
\* carries the code its own exit callback delivered: the callback of its
\* process has run, and a callback that marks a session exited marks the
\* session of its own process, with the code it was given.
C34_ExitCodeIffExited ==
  /\ \A ref \in Refs(sessions) :
       /\ objs[ref].exitCode # None <=> objs[ref].status = "exited"
       /\ objs[ref].status = "exited" => procs[ref].state = "reaped"
  /\ (/\ res.op = "onExit" /\ Has(sessions, res.id)
      /\ res.pre.obj.status = "running") =>
       /\ Get(sessions, res.id) = res.ref
       /\ objs[res.ref].status = "exited"
       /\ objs[res.ref].exitCode = Some(res.out)

\* C35: the registry asks a process to terminate at most once: a step that
\* calls process.kill() is a kill or the shutdown, the process had not been
\* asked before and its session was running; so kill and shutdown on an
\* exited or killed session call no process.kill().
C35_KilledAtMostOnce ==
  [][\A ref \in 1..Len(procs) :
       procs'[ref].kills # procs[ref].kills =>
         /\ procs[ref].kills = 0 /\ procs'[ref].kills = 1
         /\ objs[ref].status = "running"
         /\ res'.op \in {"kill", "shutdown"}]_vars

\* The shutdown has run over a registry that held a killed session and an
\* exited one, after a second kill of the killed one.
C35_Witness ==
  /\ res.op = "shutdown"
  /\ \E ref \in res.out : objs[ref].status = "killed" /\ procs[ref].kills = 1
  /\ \E ref \in res.out : objs[ref].status = "exited" /\ procs[ref].kills = 0

\* C36: a session taken out of the registry never comes back, and the
\* callbacks of its process that are delivered afterwards change nothing
\* that can be seen: the registry, what list, read and search return for
\* every id, and the status and buffer of every session of the registry
\* are as before.
C36_RemovedStaysRemoved ==
  [][/\ \A ref \in 1..Len(objs) :
          ref \notin Refs(sessions) => ref \notin Refs(sessions')
     /\ (res'.op \in {"onData", "onExit"} /\ res'.ref \notin Refs(sessions)) =>
          /\ sessions' = sessions
          /\ ListResult'.out = ListResult.out
          /\ \A id \in Ids, offset \in Offsets, limit \in Limits :
               /\ ReadResult(id, offset, limit)' = ReadResult(id, offset, limit)
               /\ \A pattern \in Patterns :
                    SearchResult(id, pattern, offset, limit)'
                      = SearchResult(id, pattern, offset, limit)
          /\ \A r \in Refs(sessions) :
               /\ objs'[r].status = objs[r].status
               /\ objs'[r].buffer = objs[r].buffer]_vars

\* C37: no session is stuck running: a session of the registry whose
\* process has had its exit callback run has status exited or killed.
C37_NotStuckRunning ==
  \A ref \in Refs(sessions) :
    procs[ref].state = "reaped" => objs[ref].status \in {"exited", "killed"}

\* The exit callbacks of an exited session and of a killed one, both in the
\* registry, have run.
C37_Witness ==
  /\ res.op = "onExit"
  /\ \E ref \in Refs(sessions) :
       procs[ref].state = "reaped" /\ objs[ref].status = "exited"
  /\ \E ref \in Refs(sessions) :
       procs[ref].state = "reaped" /\ objs[ref].status = "killed"

\* C38: before the shutdown no process is orphaned: every process a spawn
\* started that is alive and that no kill was called on is the process of
\* a session of the registry whose status is running.
C38_NoOrphanedProcess ==
  ~shut =>
    \A ref \in 1..Len(procs) :
      (procs[ref].state = "alive" /\ procs[ref].kills = 0) =>
        /\ ref \in Refs(sessions)
        /\ objs[ref].status = "running"

\* C39: read, search, list and write, whether they succeed or fail, leave
\* the registry and every session's status, exit code and buffer as they
\* were; a buffer is changed only by a data callback of its own session's
\* process, by a kill with cleanup that finds its session, and by the
\* shutdown.
C39_Frame ==
  [][/\ res'.op \in {"read", "search", "list", "write"} =>
          /\ sessions' = sessions
          /\ objs' = objs
     /\ \A ref \in 1..Len(objs) :
          objs'[ref].buffer # objs[ref].buffer =>
            \/ res'.op = "onData" /\ res'.ref = ref
            \/ /\ res'.op = "kill" /\ res'.outcome = "ok" /\ res'.cleanup
               /\ res'.ref = ref /\ res'.id = objs[ref].id
            \/ res'.op = "shutdown"]_vars

\* A write has been refused for an exited session that has output in its
\* buffer.
C39_Witness ==
  /\ res.op = "write"
  /\ res.outcome = "PTYNotRunningError"
  /\ objs[res.ref].status = "exited"
  /\ objs[res.ref].exitCode # None
  /\ objs[res.ref].buffer # <<>>

\* C40: for every match (n, text) that search returns, read(id, n - 1, 1)
\* returns the one line text; and the result holds no more matches, in its
\* page and in its count, than its totalLines.
C40_MatchIsReadable ==
  (res.op = "search" /\ res.outcome = "ok") =>
    /\ \A k \in 1..Len(res.out.matches) :
         LET match == res.out.matches[k]
         IN  ReadResult(res.id, match.lineNumber - 1, Some(1)).out.lines
               = <<match.text>>
    /\ Len(res.out.matches) <= res.out.totalLines
    /\ res.out.totalMatches <= res.out.totalLines

\* A search has returned a match on the second line of a buffer whose
\* other line does not match.
C40_Witness ==
  /\ res.op = "search" /\ res.outcome = "ok"
  /\ \E k \in 1..Len(res.out.matches) : res.out.matches[k].lineNumber = 2
  /\ res.out.totalMatches < res.out.totalLines

====
